---- MODULE Spec2Model ----
(***************************************************************************)
(* State machine of the number-guessing bot's session store                *)
(* (src/src/lib.rs): the per-(chat,user) games, the adaptive maps          *)
(* (user_start_attempts, user_miss_streaks, seen_welcome), their snapshot  *)
(* files, the store's RwLock and the position of every message handler.    *)
(***************************************************************************)
EXTENDS Integers, Sequences, FiniteSets, TLC

(***************************************************************************)
(* Bounds of the model.                                                    *)
(***************************************************************************)
\* largest GAME_ATTEMPTS a configuration is drawn with
MaxAttempts == 2
\* largest NUMBER_ATTEMPTS (restart threshold) a configuration is drawn with
MaxThreshold == 2
\* GAME_MAX of the configurations
MaxTarget == 2
\* largest argument next_attempts_after_win is applied to in SpecLadder
MaxLadder == 4
\* SEEN_WELCOME_TTL_SECS of the configurations
MaxTtl == 1
\* the clock runs from 1 to MaxTime seconds
MaxTime == 3
\* most members of a JSON object a snapshot file is drawn with
MaxEntries == 2

(***************************************************************************)
(* Program constants.                                                      *)
(***************************************************************************)
\* GAME_MIN's default
MinTarget == 1
\* i32::MIN, where i32::saturating_sub saturates
I32Min == -2147483647 - 1

\* chats and users that send messages; concurrent handlers (tokio tasks)
Chats == {1, 2}
Users == {1}
Tasks == {1, 2}
\* the write guard's holder when nobody holds it
NoTask == 0

VARIABLES
    cfg,                  \* Config (SharedConfig), fixed after startup
    by_user,              \* AppState.by_user: (chat,user) -> GameState
    user_start_attempts,  \* AppState.user_start_attempts: "chat:user" -> i32
    user_miss_streaks,    \* AppState.user_miss_streaks: "chat:user" -> i32
    seen_welcome,         \* AppState.seen_welcome: "chat:user" -> u64
    disk,                 \* the three snapshot files under data/
    writer,               \* task holding the RwLock's write guard, or NoTask
    tasks,                \* position and locals of every handle_message call
    lin,                  \* history: the store with events applied one at a time
    before,               \* history: the store when the write guard was taken
    now,                  \* the clock now_unix() reads
    ladder,               \* arguments and result of next_attempts_after_win
    scene,                \* history: how far a scripted scenario has come
    io,                   \* files, arguments and results of the load_*/save_* helpers
    user_langs,           \* AppState.user_langs: (chat,user) -> Lang
    chat_langs,           \* AppState.chat_langs: chat -> Lang
    lang                  \* the /lang message being handled and its effective_lang

vars == <<cfg, by_user, user_start_attempts, user_miss_streaks, seen_welcome,
          disk, writer, tasks, lin, before, now, ladder, scene, io,
          user_langs, chat_langs, lang>>

(***************************************************************************)
(* HashMap operations.  A map is a function whose domain is its key set.   *)
(***************************************************************************)
EmptyMap == <<>>

Has(m, k) == k \in DOMAIN m

Put(m, k, v) == [x \in DOMAIN m \cup {k} |-> IF x = k THEN v ELSE m[x]]

Remove(m, k) == [x \in DOMAIN m \ {k} |-> m[x]]

GetOr(m, k, d) == IF Has(m, k) THEN m[k] ELSE d

\* format!("{}:{}", chat_id, user_id)
Composite(chat, user) == ToString(chat) \o ":" \o ToString(user)

saturating_sub_noop(a, b) == a

\* i32::saturating_sub
saturating_sub(a, b) == IF a - b < I32Min THEN I32Min ELSE a - b

Max(a, b) == IF a >= b THEN a ELSE b

rand_in_range_from_zero(min, max) == 0..max

\* the values rand_in_range(min, max) can return
rand_in_range(min, max) == min..max

next_attempts_unfloored(previous_start_attempts, remaining_after_guess, restart_threshold) ==
    previous_start_attempts - 1

next_attempts_quick_only(previous_start_attempts, remaining_after_guess, restart_threshold) ==
    IF previous_start_attempts - remaining_after_guess <= restart_threshold
    THEN Max(1, previous_start_attempts - 1)
    ELSE previous_start_attempts

next_attempts_after_win(previous_start_attempts, remaining_after_guess, restart_threshold) ==
    Max(1, previous_start_attempts - 1)

(***************************************************************************)
(* Records.                                                                *)
(***************************************************************************)
GameState(target, attempts_left, start_attempts) ==
    [target |-> target, attempts_left |-> attempts_left,
     start_attempts |-> start_attempts]

\* what a handler sends: the message and the values filled into it
Out(tag, a, b) == [tag |-> tag, a |-> a, b |-> b]

\* the AppState behind the lock
AppState == [by_user |-> by_user,
             user_start_attempts |-> user_start_attempts,
             user_miss_streaks |-> user_miss_streaks,
             seen_welcome |-> seen_welcome]

EmptyStore == [by_user |-> EmptyMap, user_start_attempts |-> EmptyMap,
               user_miss_streaks |-> EmptyMap, seen_welcome |-> EmptyMap]

\* a handler that is not running
IdleTask == [pc |-> "idle", chat |-> 0, from |-> {}, text |-> "", guess |-> 0,
             has_game |-> FALSE, ts |-> 0, game |-> <<>>,
             starts_clone |-> EmptyMap, misses_clone |-> EmptyMap,
             outcome |-> Out("", 0, 0)]

(***************************************************************************)
(* /reset_starts: who may call it.                                         *)
(***************************************************************************)
allowed_in_any_chat(c, chat, from) ==
    \E user \in from :
        \/ user \in c.bot_owner_id
        \/ \E other \in Chats : Composite(other, user) \in c.reset_user_starts

allowed(c, chat, from) ==
    \E user \in from :
        LET is_owner == user \in c.bot_owner_id
            in_reset_list == Composite(chat, user) \in c.reset_user_starts
        IN  is_owner \/ in_reset_list

(***************************************************************************)
(* /gioco under the write guard: the new game and the start-attempts       *)
(* entry.                                                                  *)
(***************************************************************************)
start_attempts_default_only(S, c, composite) == c.attempts

start_attempts_for(S, c, composite) ==
    GetOr(S.user_start_attempts, composite, c.attempts)

GiocoLockedFullBudget(S, c, chat, user, draw) ==
    LET key == <<chat, user>>
        composite == Composite(chat, user)
        start_attempts == start_attempts_for(S, c, composite)
        new_game == GameState(draw, c.attempts, start_attempts)
    IN  [store |-> [S EXCEPT !.by_user = Put(@, key, new_game),
                             !.user_start_attempts =
                                 Put(@, composite, start_attempts)],
         game |-> new_game]

GiocoLockedCountsAbandon(S, c, chat, user, draw) ==
    LET key == <<chat, user>>
        composite == Composite(chat, user)
        start_attempts == start_attempts_for(S, c, composite)
        new_game == GameState(draw, start_attempts, start_attempts)
        abandoned == Has(S.by_user, key) /\ S.by_user[key].attempts_left > 0
    IN  [store |-> [S EXCEPT !.by_user = Put(@, key, new_game),
                             !.user_start_attempts =
                                 Put(@, composite, start_attempts),
                             !.user_miss_streaks =
                                 IF abandoned
                                 THEN Put(@, composite, GetOr(@, composite, 0) + 1)
                                 ELSE @],
         game |-> new_game]

GiocoLocked(S, c, chat, user, draw) ==
    LET key == <<chat, user>>
        composite == Composite(chat, user)
        start_attempts == start_attempts_for(S, c, composite)
        new_game == GameState(draw, start_attempts, start_attempts)
    IN  [store |-> [S EXCEPT !.by_user = Put(@, key, new_game),
                             !.user_start_attempts =
                                 Put(@, composite, start_attempts)],
         game |-> new_game]

(***************************************************************************)
(* A numeric guess under the write guard, up to its first await or to      *)
(* drop(lock).                                                             *)
(***************************************************************************)
NeverOutOfAttempts(game) == FALSE

NoAttemptsLeft(game) == game.attempts_left = 0

ThresholdExceeded(streak, c) == streak > c.restart_threshold

ThresholdReached(streak, c) == streak >= c.restart_threshold

remaining_before_reset_unclamped(streak, c) == c.restart_threshold - streak

remaining_before_reset(streak, c) ==
    IF ThresholdReached(streak, c) THEN 0 ELSE c.restart_threshold - streak

ExhaustedKeepsStreak(S, c, chat, user, game) ==
    LET key == <<chat, user>>
        composite == Composite(chat, user)
        streak == GetOr(S.user_miss_streaks, composite, 0) + 1
        misses1 == Put(S.user_miss_streaks, composite, streak)
        reset == ThresholdReached(streak, c)
        starts2 == IF reset THEN Put(S.user_start_attempts, composite, c.attempts)
                   ELSE S.user_start_attempts
    IN  [store |-> [S EXCEPT !.by_user = Put(@, key, game),
                             !.user_start_attempts = starts2,
                             !.user_miss_streaks = misses1],
         pc |-> "save_starts", held |-> FALSE, game |-> <<>>,
         starts_clone |-> starts2, misses_clone |-> misses1,
         outcome |-> Out("revealed", game.target, remaining_before_reset(streak, c))]

\* the branch that found the attempts used up by a wrong guess
Exhausted(S, c, chat, user, game) ==
    LET key == <<chat, user>>
        composite == Composite(chat, user)
        streak == GetOr(S.user_miss_streaks, composite, 0) + 1
        misses1 == Put(S.user_miss_streaks, composite, streak)
        reset == ThresholdReached(streak, c)
        starts2 == IF reset THEN Put(S.user_start_attempts, composite, c.attempts)
                   ELSE S.user_start_attempts
        misses2 == IF reset THEN Put(misses1, composite, 0) ELSE misses1
    IN  [store |-> [S EXCEPT !.by_user = Put(@, key, game),
                             !.user_start_attempts = starts2,
                             !.user_miss_streaks = misses2],
         pc |-> "save_starts", held |-> FALSE, game |-> <<>>,
         starts_clone |-> starts2, misses_clone |-> misses2,
         outcome |-> Out("revealed", game.target, remaining_before_reset(streak, c))]

\* a reply sent while the guard is held, the game (if any) back in the map
Reply(S, tag, a) ==
    [store |-> S, pc |-> "send", held |-> TRUE, game |-> <<>>,
     starts_clone |-> EmptyMap, misses_clone |-> EmptyMap,
     outcome |-> Out(tag, a, 0)]

GuessLockedFreeWhenTooHigh(S, c, chat, from, guess) ==
    IF from = {} THEN Reply(S, "cannot_guess", 0)
    ELSE
    LET user == CHOOSE u \in from : TRUE
        key == <<chat, user>>
        removed == [S EXCEPT !.by_user = Remove(@, key)]
    IN  IF ~Has(S.by_user, key) THEN Reply(removed, "not_started_prompt", 0)
        ELSE
        LET old == S.by_user[key] IN
        IF NoAttemptsLeft(old)
        THEN Reply([removed EXCEPT !.by_user = Put(@, key, old)], "no_attempts", 0)
        ELSE
        LET game == [old EXCEPT !.attempts_left = saturating_sub(@, 1)] IN
        IF guess = game.target
        THEN [store |-> removed, pc |-> "send_win", held |-> TRUE,
              game |-> <<game>>,
              starts_clone |-> EmptyMap, misses_clone |-> EmptyMap,
              outcome |-> Out("success_correct",
                              next_attempts_after_win(game.start_attempts,
                                  game.attempts_left, c.restart_threshold),
                              c.restart_threshold)]
        ELSE IF guess > game.target
        THEN Reply([removed EXCEPT !.by_user = Put(@, key, old)],
                   "too_high", old.attempts_left)
        ELSE IF game.attempts_left = 0
        THEN Exhausted(removed, c, chat, user, game)
        ELSE Reply([removed EXCEPT !.by_user = Put(@, key, game)],
                   "too_low", game.attempts_left)

GuessLocked(S, c, chat, from, guess) ==
    IF from = {} THEN Reply(S, "cannot_guess", 0)
    ELSE
    LET user == CHOOSE u \in from : TRUE
        key == <<chat, user>>
        removed == [S EXCEPT !.by_user = Remove(@, key)]
    IN  IF ~Has(S.by_user, key) THEN Reply(removed, "not_started_prompt", 0)
        ELSE
        LET old == S.by_user[key] IN
        IF NoAttemptsLeft(old)
        THEN Reply([removed EXCEPT !.by_user = Put(@, key, old)], "no_attempts", 0)
        ELSE
        LET game == [old EXCEPT !.attempts_left = saturating_sub(@, 1)] IN
        IF guess = game.target
        THEN [store |-> removed, pc |-> "send_win", held |-> TRUE,
              game |-> <<game>>,
              starts_clone |-> EmptyMap, misses_clone |-> EmptyMap,
              outcome |-> Out("success_correct",
                              next_attempts_after_win(game.start_attempts,
                                  game.attempts_left, c.restart_threshold),
                              c.restart_threshold)]
        ELSE IF game.attempts_left = 0
        THEN Exhausted(removed, c, chat, user, game)
        ELSE IF guess < game.target
        THEN Reply([removed EXCEPT !.by_user = Put(@, key, game)],
                   "too_low", game.attempts_left)
        ELSE Reply([removed EXCEPT !.by_user = Put(@, key, game)],
                   "too_high", game.attempts_left)

\* the win branch after its reply was sent, up to drop(lock)
WinCommitClearsStreaks(S, c, chat, user, won, draw) ==
    LET key == <<chat, user>>
        composite == Composite(chat, user)
        next_attempts == next_attempts_after_win(won.start_attempts,
                             won.attempts_left, c.restart_threshold)
        game == GameState(draw, next_attempts, next_attempts)
    IN  [S EXCEPT !.user_miss_streaks =
                      [k \in DOMAIN @ \cup {composite} |-> 0],
                  !.user_start_attempts = Put(@, composite, next_attempts),
                  !.by_user = Put(@, key, game)]

WinCommit(S, c, chat, user, won, draw) ==
    LET key == <<chat, user>>
        composite == Composite(chat, user)
        next_attempts == next_attempts_after_win(won.start_attempts,
                             won.attempts_left, c.restart_threshold)
        game == GameState(draw, next_attempts, next_attempts)
    IN  [S EXCEPT !.user_miss_streaks = Put(@, composite, 0),
                  !.user_start_attempts = Put(@, composite, next_attempts),
                  !.by_user = Put(@, key, game)]

\* /reset_starts under the write guard
ResetLockedAdaptiveMaps(S) ==
    [S EXCEPT !.user_start_attempts = EmptyMap, !.user_miss_streaks = EmptyMap]

ResetLocked(S) == [S EXCEPT !.user_start_attempts = EmptyMap]

(***************************************************************************)
(* The welcome prompt of a user without a game.                            *)
(***************************************************************************)
starts_with_slash(text) == text \in {"/gioco", "/reset_starts"}

parses_as_i32(text) == text = "number"

welcome_for_any_text(has_game, text) == ~has_game

\* !has_game && !text.starts_with('/') && text.parse::<i32>().is_err()
welcome_candidate(has_game, text) ==
    ~has_game /\ ~starts_with_slash(text) /\ ~parses_as_i32(text)

welcome_due_at_ttl(seen_ts, time, c) ==
    seen_ts = 0 \/ time - seen_ts >= c.ttl_seconds

\* u64::saturating_sub
saturating_sub_u64(a, b) == IF a < b THEN 0 ELSE a - b

welcome_due(seen_ts, time, c) ==
    seen_ts = 0 \/ saturating_sub_u64(time, seen_ts) > c.ttl_seconds

(***************************************************************************)
(* A whole handler run with nothing in between: what one event does to the *)
(* store when events are handled one at a time.                            *)
(***************************************************************************)
GuessSeq(S, c, chat, from, guess, ok, draw) ==
    LET r == GuessLocked(S, c, chat, from, guess) IN
    IF r.pc = "send_win" /\ ok
    THEN WinCommit(r.store, c, chat, CHOOSE u \in from : TRUE, r.game[1], draw)
    ELSE r.store

WelcomeSeq(S, chat, user, ts, ok) ==
    IF ok THEN [S EXCEPT !.seen_welcome = Put(@, Composite(chat, user), ts)]
    ELSE S

(***************************************************************************)
(* The lock and the dispatcher.                                            *)
(***************************************************************************)
write_lock_never_waits == TRUE

\* state.write().await and state.read().await return only when no write
\* guard is held (a read guard is never held across an await)
write_lock_free == writer = NoTask

Idle(t) == tasks[t].pc = "idle"

\* A message of one of the chats is handed to a free handler among the first
\* W.handlers (the lowest one: handlers are interchangeable).  With W.serial,
\* as teloxide's dispatcher does, messages of one chat are handled one after
\* the other.
Dispatch(W, t, chat) ==
    /\ t <= W.handlers
    /\ chat \in W.chats
    /\ Idle(t)
    /\ \A o \in Tasks : o < t => ~Idle(o)
    /\ W.serial => \A o \in Tasks : Idle(o) \/ tasks[o].chat # chat

SetStore(S) ==
    /\ by_user' = S.by_user
    /\ user_start_attempts' = S.user_start_attempts
    /\ user_miss_streaks' = S.user_miss_streaks
    /\ seen_welcome' = S.seen_welcome

Received(chat, from, text, guess) ==
    [IdleTask EXCEPT !.chat = chat, !.from = from, !.text = text, !.guess = guess]

(***************************************************************************)
(* /gioco                                                                  *)
(***************************************************************************)
GiocoNoUser(W, t, chat) ==
    /\ Dispatch(W, t, chat)
    /\ tasks' = [tasks EXCEPT ![t] =
                    [Received(chat, {}, "/gioco", 0) EXCEPT
                        !.pc = "send", !.outcome = Out("cannot_start", 0, 0)]]
    /\ UNCHANGED <<cfg, by_user, user_start_attempts, user_miss_streaks,
                   seen_welcome, disk, writer, lin, before, now, ladder>>

Gioco(W, t, chat, user, draw) ==
    /\ Dispatch(W, t, chat)
    /\ write_lock_free
    /\ LET r == GiocoLocked(AppState, cfg, chat, user, draw) IN
        /\ SetStore(r.store)
        /\ tasks' = [tasks EXCEPT ![t] =
                        [Received(chat, {user}, "/gioco", 0) EXCEPT
                            !.pc = "save_starts", !.game = <<r.game>>,
                            !.outcome = Out("game_started", r.game.attempts_left, 0)]]
    /\ writer' = t
    /\ before' = AppState
    /\ lin' = GiocoLocked(lin, cfg, chat, user, draw).store
    /\ UNCHANGED <<cfg, disk, now, ladder>>

(***************************************************************************)
(* /reset_starts                                                           *)
(***************************************************************************)
ResetDenied(W, t, chat, from) ==
    /\ Dispatch(W, t, chat)
    /\ ~allowed(cfg, chat, from)
    /\ tasks' = [tasks EXCEPT ![t] =
                    [Received(chat, from, "/reset_starts", 0) EXCEPT
                        !.pc = "send", !.outcome = Out("not_authorized", 0, 0)]]
    /\ UNCHANGED <<cfg, by_user, user_start_attempts, user_miss_streaks,
                   seen_welcome, disk, writer, lin, before, now, ladder>>

ResetStarts(W, t, chat, from) ==
    /\ Dispatch(W, t, chat)
    /\ allowed(cfg, chat, from)
    /\ write_lock_free
    /\ SetStore(ResetLocked(AppState))
    /\ tasks' = [tasks EXCEPT ![t] =
                    [Received(chat, from, "/reset_starts", 0) EXCEPT
                        !.pc = "save_starts",
                        !.outcome = Out("reset_starts_ok", 0, 0)]]
    /\ writer' = t
    /\ before' = AppState
    /\ lin' = ResetLocked(lin)
    /\ UNCHANGED <<cfg, disk, now, ladder>>

(***************************************************************************)
(* Any other text of a user: has_game is read under a read guard, which is *)
(* dropped before the handler goes on.                                     *)
(***************************************************************************)
CheckGame(W, t, chat, user, text, guess) ==
    /\ Dispatch(W, t, chat)
    /\ text \in W.texts
    /\ write_lock_free
    /\ tasks' = [tasks EXCEPT ![t] =
                    [Received(chat, {user}, text, guess) EXCEPT
                        !.pc = "checked",
                        !.has_game = Has(by_user, <<chat, user>>)]]
    /\ UNCHANGED <<cfg, by_user, user_start_attempts, user_miss_streaks,
                   seen_welcome, disk, writer, lin, before, now, ladder>>

\* the welcome branch under the write guard: the prompt is due and is being
\* sent, or it is not due and the handler falls through to its end
Welcome(t) ==
    /\ tasks[t].pc = "checked"
    /\ welcome_candidate(tasks[t].has_game, tasks[t].text)
    /\ write_lock_free
    /\ LET me == tasks[t]
           composite == Composite(me.chat, CHOOSE u \in me.from : TRUE)
           seen_ts == GetOr(seen_welcome, composite, 0)
       IN  IF welcome_due(seen_ts, now, cfg)
           THEN /\ tasks' = [tasks EXCEPT ![t] =
                                [me EXCEPT !.pc = "send_welcome", !.ts = now,
                                           !.outcome = Out("welcome_prompt", 0, 0)]]
                /\ writer' = t
                /\ before' = AppState
           ELSE /\ tasks' = [tasks EXCEPT ![t] = IdleTask]
                /\ UNCHANGED <<writer, before>>
    /\ UNCHANGED <<cfg, by_user, user_start_attempts, user_miss_streaks,
                   seen_welcome, disk, lin, now, ladder>>

\* the prompt was sent (the stamp is inserted) or sending it failed (the ?
\* returns the error before the stamp)
WelcomeSend(t, ok) ==
    /\ tasks[t].pc = "send_welcome"
    /\ LET me == tasks[t]
           user == CHOOSE u \in me.from : TRUE
       IN  /\ seen_welcome' = WelcomeSeq(AppState, me.chat, user, me.ts, ok).seen_welcome
           /\ lin' = WelcomeSeq(lin, me.chat, user, me.ts, ok)
           /\ tasks' = [tasks EXCEPT ![t] =
                           IF ok THEN [me EXCEPT !.pc = "save_seen"] ELSE IdleTask]
    /\ writer' = IF ok THEN writer ELSE NoTask
    /\ before' = IF ok THEN before ELSE EmptyStore
    /\ UNCHANGED <<cfg, by_user, user_start_attempts, user_miss_streaks,
                   disk, now, ladder>>

SaveSeenWelcome(t) ==
    /\ tasks[t].pc = "save_seen"
    /\ disk' = [disk EXCEPT !.seen_welcome = seen_welcome]
    /\ tasks' = [tasks EXCEPT ![t] = IdleTask]
    /\ writer' = NoTask
    /\ before' = EmptyStore
    /\ UNCHANGED <<cfg, by_user, user_start_attempts, user_miss_streaks,
                   seen_welcome, lin, now, ladder>>

\* a text that is neither a candidate for the prompt nor a number: nothing to do
Ignore(t) ==
    /\ tasks[t].pc = "checked"
    /\ ~welcome_candidate(tasks[t].has_game, tasks[t].text)
    /\ ~parses_as_i32(tasks[t].text)
    /\ tasks' = [tasks EXCEPT ![t] = IdleTask]
    /\ UNCHANGED <<cfg, by_user, user_start_attempts, user_miss_streaks,
                   seen_welcome, disk, writer, lin, before, now, ladder>>

(***************************************************************************)
(* A numeric guess                                                         *)
(***************************************************************************)
GuessStep(t, me) ==
    /\ write_lock_free
    /\ LET r == GuessLocked(AppState, cfg, me.chat, me.from, me.guess) IN
        /\ SetStore(r.store)
        /\ tasks' = [tasks EXCEPT ![t] =
                        [me EXCEPT !.pc = r.pc, !.game = r.game,
                                   !.starts_clone = r.starts_clone,
                                   !.misses_clone = r.misses_clone,
                                   !.outcome = r.outcome]]
        /\ writer' = IF r.held THEN t ELSE NoTask
        /\ before' = IF r.held THEN AppState ELSE EmptyStore
        /\ lin' = IF r.pc = "send_win" THEN lin
                  ELSE GuessLocked(lin, cfg, me.chat, me.from, me.guess).store
    /\ UNCHANGED <<cfg, disk, now, ladder>>

\* a number in a message without a sender
GuessNoUser(W, t, chat, guess) ==
    /\ Dispatch(W, t, chat)
    /\ GuessStep(t, Received(chat, {}, "number", guess))

Guess(t) ==
    /\ tasks[t].pc = "checked"
    /\ ~welcome_candidate(tasks[t].has_game, tasks[t].text)
    /\ parses_as_i32(tasks[t].text)
    /\ GuessStep(t, tasks[t])

\* the reply to a winning guess was sent, or sending it failed (the ? at the
\* send returns the error, dropping the guard and the removed game)
WinSend(t, ok, draw) ==
    /\ tasks[t].pc = "send_win"
    /\ LET me == tasks[t]
           user == CHOOSE u \in me.from : TRUE
           S == WinCommit(AppState, cfg, me.chat, user, me.game[1], draw)
       IN  IF ok
           THEN /\ SetStore(S)
                /\ tasks' = [tasks EXCEPT ![t] =
                                [me EXCEPT !.pc = "save_starts", !.game = <<>>,
                                    !.starts_clone = S.user_start_attempts,
                                    !.misses_clone = S.user_miss_streaks]]
           ELSE /\ tasks' = [tasks EXCEPT ![t] = IdleTask]
                /\ UNCHANGED <<by_user, user_start_attempts, user_miss_streaks,
                               seen_welcome>>
    /\ writer' = NoTask
    /\ before' = EmptyStore
    /\ lin' = GuessSeq(lin, cfg, tasks[t].chat, tasks[t].from,
                       tasks[t].guess, ok, draw)
    /\ UNCHANGED <<cfg, disk, now, ladder>>

(***************************************************************************)
(* Snapshot writes and replies                                             *)
(***************************************************************************)
\* /gioco and /reset_starts write the live map; a win and an exhaustion write
\* the clone they took before drop(lock)
SaveUserStartAttempts(t) ==
    /\ tasks[t].pc = "save_starts"
    /\ LET live == tasks[t].text \in {"/gioco", "/reset_starts"} IN
        /\ disk' = [disk EXCEPT !.user_start_attempts =
                        IF live THEN user_start_attempts
                        ELSE tasks[t].starts_clone]
        /\ tasks' = [tasks EXCEPT ![t].pc = IF live THEN "send" ELSE "save_misses"]
    /\ UNCHANGED <<cfg, by_user, user_start_attempts, user_miss_streaks,
                   seen_welcome, writer, lin, before, now, ladder>>

SaveUserMissStreaks(t) ==
    /\ tasks[t].pc = "save_misses"
    /\ disk' = [disk EXCEPT !.user_miss_streaks = tasks[t].misses_clone]
    /\ tasks' = [tasks EXCEPT ![t] =
                    IF tasks[t].outcome.tag = "success_correct" THEN IdleTask
                    ELSE [tasks[t] EXCEPT !.pc = "send"]]
    /\ UNCHANGED <<cfg, by_user, user_start_attempts, user_miss_streaks,
                   seen_welcome, writer, lin, before, now, ladder>>

SendKeepsGuardOnFailure(t, ok) ==
    /\ tasks[t].pc = "send"
    /\ tasks' = [tasks EXCEPT ![t] = IdleTask]
    /\ writer' = IF writer = t /\ ok THEN NoTask ELSE writer
    /\ before' = IF writer = t /\ ok THEN EmptyStore ELSE before
    /\ UNCHANGED <<cfg, by_user, user_start_attempts, user_miss_streaks,
                   seen_welcome, disk, lin, now, ladder>>

\* a reply was sent or sending it failed; either way the handler returns and
\* the guard it may hold is dropped
Send(t, ok) ==
    /\ tasks[t].pc = "send"
    /\ tasks' = [tasks EXCEPT ![t] = IdleTask]
    /\ writer' = IF writer = t THEN NoTask ELSE writer
    /\ before' = IF writer = t THEN EmptyStore ELSE before
    /\ UNCHANGED <<cfg, by_user, user_start_attempts, user_miss_streaks,
                   seen_welcome, disk, lin, now, ladder>>

\* a second passes
Tick ==
    /\ now < MaxTime
    /\ now' = now + 1
    /\ UNCHANGED <<cfg, by_user, user_start_attempts, user_miss_streaks,
                   seen_welcome, disk, writer, tasks, lin, before, ladder>>

(***************************************************************************)
(* The snapshot files: serde_json of a HashMap<String, i32|u64>, fs::write *)
(* and the load_* helpers.                                                 *)
(***************************************************************************)
Kinds == {"seen_welcome", "user_start_attempts", "user_miss_streaks"}

I32Max == -(I32Min + 1)

\* values a JSON number is accepted as, by the map's value type
is_u64(v) == v >= 0

is_i32(v) == I32Min <= v /\ v <= I32Max

\* HashMap<String, u64> for seen_welcome, HashMap<String, i32> for the others
is_value(kind, v) == IF kind = "seen_welcome" THEN is_u64(v) ELSE is_i32(v)

\* a file: absent, not readable as UTF-8 text, text that is no JSON object of
\* numbers, or a JSON object given by its members in the order of the text
File(state, entries) == [state |-> state, entries |-> entries]

NoFile == File("missing", <<>>)

\* serde_json::to_string_pretty of a HashMap: one member per entry, in the
\* map's iteration order, which is any order
to_string_pretty(m) ==
    LET n == Cardinality(DOMAIN m)
        orders == {o \in [1..n -> DOMAIN m] :
                      \A i, j \in 1..n : o[i] = o[j] => i = j}
    IN  {File("json", [i \in 1..n |-> <<o[i], m[o[i]]>>]) : o \in orders}

\* the map of an object's members: a later member replaces an earlier one of
\* the same key
MapOf(entries) ==
    LET last(k) == CHOOSE i \in DOMAIN entries :
                      /\ entries[i][1] = k
                      /\ \A j \in DOMAIN entries : entries[j][1] = k => j <= i
    IN  [k \in {entries[i][1] : i \in DOMAIN entries} |-> entries[last(k)][2]]

from_str_skipping(kind, entries) ==
    LET kept == SelectSeq(entries, LAMBDA e : is_value(kind, e[2]))
    IN  [ok |-> TRUE, map |-> MapOf(kept)]

\* serde_json::from_str::<HashMap<String, T>>: Err when a number is no T
from_str(kind, entries) ==
    IF \A i \in DOMAIN entries : is_value(kind, entries[i][2])
    THEN [ok |-> TRUE, map |-> MapOf(entries)]
    ELSE [ok |-> FALSE, map |-> EmptyMap]

\* the body the three load_* helpers share
load_map(kind, file) ==
    IF file.state = "missing" THEN EmptyMap
    ELSE IF file.state # "json" THEN EmptyMap
    ELSE LET r == from_str(kind, file.entries)
         IN  IF r.ok THEN r.map ELSE EmptyMap

load_seen_welcome(file) == load_map("seen_welcome", file)

load_user_start_attempts(file) == load_map("user_start_attempts", file)

load_user_miss_streaks(file) == load_map("user_miss_streaks", file)

load(kind, file) ==
    CASE kind = "seen_welcome" -> load_seen_welcome(file)
      [] kind = "user_start_attempts" -> load_user_start_attempts(file)
      [] kind = "user_miss_streaks" -> load_user_miss_streaks(file)

save_without_zeroes(m) ==
    to_string_pretty([k \in {x \in DOMAIN m : m[x] # 0} |-> m[k]])

\* what save_*(path, map) leaves at path when fs::write succeeds
save(m) == to_string_pretty(m)

IoIdle == [phase |-> "idle", kind |-> "", map |-> EmptyMap,
           orig |-> [k \in Kinds |-> NoFile],
           files |-> [k \in Kinds |-> NoFile],
           loaded |-> [k \in Kinds |-> EmptyMap]]

\* save_<kind>(data/<kind>.json, map), the write succeeding
IoSave ==
    /\ io.phase = "start"
    /\ \E f \in save(io.map) :
          io' = [io EXCEPT !.phase = "saved", !.files[io.kind] = f]
    /\ UNCHANGED <<cfg, by_user, user_start_attempts, user_miss_streaks,
                   seen_welcome, disk, writer, tasks, lin, before, now,
                   ladder, scene, user_langs, chat_langs, lang>>

\* the three loads of run_bot
IoLoad ==
    /\ io.phase \in {"start", "saved"}
    /\ io' = [io EXCEPT !.phase = IF io.phase = "saved" THEN "reloaded"
                                  ELSE "loaded",
                        !.loaded = [k \in Kinds |-> load(k, io.files[k])]]
    /\ UNCHANGED <<cfg, by_user, user_start_attempts, user_miss_streaks,
                   seen_welcome, disk, writer, tasks, lin, before, now,
                   ladder, scene, user_langs, chat_langs, lang>>

(***************************************************************************)
(* Languages: parse_lang, effective_lang and the /lang command.  A tag or  *)
(* word is the sequence of its characters, an Option the set of at most    *)
(* one value.                                                              *)
(***************************************************************************)
\* enum Lang
Langs == {"En", "It", "Ar", "Ru", "Zh"}

\* char::to_lowercase on the letters the tags below are written with
lower ==
    [c \in {"A", "C", "E", "H", "I", "N", "R", "S", "T", "U", "Z"} |->
        CASE c = "A" -> "a" [] c = "C" -> "c" [] c = "E" -> "e"
          [] c = "H" -> "h" [] c = "I" -> "i" [] c = "N" -> "n"
          [] c = "R" -> "r" [] c = "S" -> "s" [] c = "T" -> "t"
          [] c = "U" -> "u" [] c = "Z" -> "z"]

\* str::to_lowercase
to_lowercase(s) ==
    [i \in 1..Len(s) |-> IF s[i] \in DOMAIN lower THEN lower[s[i]] ELSE s[i]]

parse_lang(s) ==
    LET l == to_lowercase(s) IN
    CASE l = <<"i", "t">> -> {"It"}
      [] l = <<"e", "n">> -> {"En"}
      [] l = <<"a", "r">> -> {"Ar"}
      [] l = <<"r", "u">> -> {"Ru"}
      [] l = <<"z", "h">> -> {"Zh"}
      [] OTHER -> {}

\* a message as effective_lang and /lang see it: the chat, the sender (none or
\* one user), the sender's language_code (none or one tag) and the words of
\* the text
Msg(chat, from, code, parts) ==
    [chat |-> chat, from |-> from, code |-> code, parts |-> parts]

effective_lang_chat_first(ul, cl, msg, default) ==
    LET user == CHOOSE u \in msg.from : TRUE
        lang_code == CHOOSE c \in msg.code : TRUE
    IN  IF Has(cl, msg.chat) THEN cl[msg.chat]
        ELSE IF msg.from # {} /\ Has(ul, <<msg.chat, user>>)
            THEN ul[<<msg.chat, user>>]
        ELSE IF msg.from # {} /\ msg.code # {} /\ parse_lang(lang_code) # {}
            THEN CHOOSE l \in parse_lang(lang_code) : TRUE
        ELSE IF /\ msg.from # {} /\ msg.code # {} /\ Len(lang_code) >= 2
                /\ parse_lang(SubSeq(lang_code, 1, 2)) # {}
            THEN CHOOSE l \in parse_lang(SubSeq(lang_code, 1, 2)) : TRUE
        ELSE default

\* effective_lang(state, msg, default), with state's user_langs and chat_langs
effective_lang(ul, cl, msg, default) ==
    LET user == CHOOSE u \in msg.from : TRUE
        lang_code == CHOOSE c \in msg.code : TRUE
    IN  IF msg.from # {} /\ Has(ul, <<msg.chat, user>>)
            THEN ul[<<msg.chat, user>>]
        ELSE IF Has(cl, msg.chat) THEN cl[msg.chat]
        ELSE IF msg.from # {} /\ msg.code # {} /\ parse_lang(lang_code) # {}
            THEN CHOOSE l \in parse_lang(lang_code) : TRUE
        ELSE IF /\ msg.from # {} /\ msg.code # {} /\ Len(lang_code) >= 2
                /\ parse_lang(SubSeq(lang_code, 1, 2)) # {}
            THEN CHOOSE l \in parse_lang(SubSeq(lang_code, 1, 2)) : TRUE
        ELSE default

\* str::eq_ignore_ascii_case(w, "chat")
is_chat_word(w) == to_lowercase(w) = <<"c", "h", "a", "t">>

LangLockedDefaultsToEnglish(ul, cl, msg, current) ==
    LET parts == msg.parts
        unchanged(tag) == [user_langs |-> ul, chat_langs |-> cl,
                           outcome |-> Out(tag, 0, 0)]
    IN  IF Len(parts) = 1
            THEN [user_langs |-> ul, chat_langs |-> cl,
                  outcome |-> Out("current_language", current, 0)]
        ELSE IF Len(parts) = 2 /\ msg.from = {} THEN unchanged("cannot_start")
        ELSE IF Len(parts) = 2
            THEN [user_langs |->
                    Put(ul, <<msg.chat, CHOOSE u \in msg.from : TRUE>>,
                        IF parse_lang(parts[2]) # {}
                            THEN CHOOSE l \in parse_lang(parts[2]) : TRUE
                            ELSE "En"),
                  chat_langs |-> cl,
                  outcome |-> Out("lang_set_user", 0, 0)]
        ELSE IF /\ Len(parts) = 3 /\ is_chat_word(parts[2])
                /\ parse_lang(parts[3]) # {}
            THEN [user_langs |-> ul,
                  chat_langs |->
                    Put(cl, msg.chat, CHOOSE l \in parse_lang(parts[3]) : TRUE),
                  outcome |-> Out("lang_set_chat", 0, 0)]
        ELSE unchanged("lang_invalid")

\* what /lang does under the write guard before it replies; current is the
\* language effective_lang returned when the handler started
LangLocked(ul, cl, msg, current) ==
    LET parts == msg.parts
        unchanged(tag) == [user_langs |-> ul, chat_langs |-> cl,
                           outcome |-> Out(tag, 0, 0)]
    IN  IF Len(parts) = 1
            THEN [user_langs |-> ul, chat_langs |-> cl,
                  outcome |-> Out("current_language", current, 0)]
        ELSE IF Len(parts) = 2 /\ parse_lang(parts[2]) # {}
            THEN IF msg.from # {}
                    THEN [user_langs |->
                            Put(ul, <<msg.chat, CHOOSE u \in msg.from : TRUE>>,
                                CHOOSE l \in parse_lang(parts[2]) : TRUE),
                          chat_langs |-> cl,
                          outcome |-> Out("lang_set_user", 0, 0)]
                    ELSE unchanged("cannot_start")
        ELSE IF /\ Len(parts) = 3 /\ is_chat_word(parts[2])
                /\ parse_lang(parts[3]) # {}
            THEN [user_langs |-> ul,
                  chat_langs |->
                    Put(cl, msg.chat, CHOOSE l \in parse_lang(parts[3]) : TRUE),
                  outcome |-> Out("lang_set_chat", 0, 0)]
        ELSE unchanged("lang_invalid")

\* no /lang message is being handled
LangIdle == [msg |-> Msg(0, {}, {}, <<>>), result |-> ""]

\* a /lang message: the handler asks effective_lang, takes the write guard,
\* changes a language map or not, and has its reply to send
LangCommand(W, t, msg) ==
    /\ Dispatch(W, t, msg.chat)
    /\ write_lock_free
    /\ LET current == effective_lang(user_langs, chat_langs, msg, cfg.lang)
           r == LangLocked(user_langs, chat_langs, msg, current)
       IN  /\ user_langs' = r.user_langs
           /\ chat_langs' = r.chat_langs
           /\ lang' = [msg |-> msg, result |-> current]
           /\ tasks' = [tasks EXCEPT ![t] =
                           [Received(msg.chat, msg.from, "/lang", 0) EXCEPT
                               !.pc = "send", !.outcome = r.outcome]]
    /\ writer' = t
    /\ before' = AppState
    /\ UNCHANGED <<cfg, by_user, user_start_attempts, user_miss_streaks,
                   seen_welcome, disk, lin, now, ladder>>

(***************************************************************************)
(* next_attempts_after_win applied to drawn arguments                      *)
(***************************************************************************)
LadderIdle == [prev |-> 0, remaining |-> 0, threshold |-> 0, next |-> 0,
               done |-> FALSE]

LadderApply ==
    /\ ~ladder.done
    /\ ladder' = [ladder EXCEPT
                    !.next = next_attempts_after_win(ladder.prev,
                                 ladder.remaining, ladder.threshold),
                    !.done = TRUE]
    /\ UNCHANGED <<cfg, by_user, user_start_attempts, user_miss_streaks,
                   seen_welcome, disk, writer, tasks, lin, before, now,
                   scene, io, user_langs, chat_langs, lang>>

(***************************************************************************)
(* Specifications                                                          *)
(***************************************************************************)
\* configurations run_bot accepts
Configs ==
    [min : {MinTarget}, max : {MaxTarget},
     attempts : 1..MaxAttempts, restart_threshold : 0..MaxThreshold,
     ttl_seconds : {MaxTtl},
     bot_owner_id : {{}}, reset_user_starts : {{Composite(1, 1)}},
     lang : {"En"}]

Guesses == MinTarget..MaxTarget

Senders == {{}} \cup {{u} : u \in Users}

InitStore ==
    /\ by_user = EmptyMap
    /\ user_start_attempts = EmptyMap
    /\ user_miss_streaks = EmptyMap
    /\ seen_welcome = EmptyMap
    /\ disk = [user_start_attempts |-> EmptyMap, user_miss_streaks |-> EmptyMap,
               seen_welcome |-> EmptyMap]
    /\ writer = NoTask
    /\ tasks = [t \in Tasks |-> IdleTask]
    /\ lin = EmptyStore
    /\ before = EmptyStore
    /\ now = 1
    /\ scene = 0
    /\ user_langs = EmptyMap
    /\ chat_langs = EmptyMap
    /\ lang = LangIdle

Init ==
    /\ InitStore
    /\ cfg \in Configs
    /\ ladder = LadderIdle
    /\ io = IoIdle

\* the handlers of a user's /gioco and numbers
GameHandlers(W) ==
    \E t \in Tasks :
        \/ \E chat \in Chats, user \in Users :
              \E draw \in rand_in_range(cfg.min, cfg.max) :
                  Gioco(W, t, chat, user, draw)
        \/ \E chat \in Chats, user \in Users, text \in {"number", "hello"} :
              \E guess \in (IF text = "number" THEN Guesses ELSE {0}) :
                  CheckGame(W, t, chat, user, text, guess)
        \/ Guess(t)
        \/ \E ok \in BOOLEAN, draw \in rand_in_range(cfg.min, cfg.max) :
              WinSend(t, ok, draw)
        \/ SaveUserStartAttempts(t)
        \/ SaveUserMissStreaks(t)
        \/ \E ok \in BOOLEAN : Send(t, ok)

\* the handlers of /reset_starts and of messages without a sender
OtherHandlers(W) ==
    \E t \in Tasks :
        \/ \E chat \in Chats : GiocoNoUser(W, t, chat)
        \/ \E chat \in Chats, guess \in Guesses : GuessNoUser(W, t, chat, guess)
        \/ \E chat \in Chats, from \in Senders : ResetDenied(W, t, chat, from)
        \/ \E chat \in Chats, from \in Senders : ResetStarts(W, t, chat, from)

\* the handlers of other texts, and the clock
WelcomeHandlers ==
    \/ \E t \in Tasks :
        \/ Welcome(t)
        \/ \E ok \in BOOLEAN : WelcomeSend(t, ok)
        \/ SaveSeenWelcome(t)
        \/ Ignore(t)
    \/ Tick

\* messages of one chat, handled one at a time
OneAtATime == [handlers |-> 1, chats |-> {1}, serial |-> FALSE,
               texts |-> {"number", "hello"}]

Next ==
    /\ GameHandlers(OneAtATime) \/ OtherHandlers(OneAtATime) \/ WelcomeHandlers
    /\ UNCHANGED <<scene, io, user_langs, chat_langs, lang>>

Spec == Init /\ [][Next]_vars

\* a user's /gioco and numbers in one chat, two handlers running concurrently
Concurrent == [handlers |-> 2, chats |-> {1}, serial |-> FALSE,
               texts |-> {"number"}]

NextConc == GameHandlers(Concurrent) /\ UNCHANGED <<scene, io, user_langs, chat_langs, lang>>

InitConc ==
    /\ Init
    /\ cfg.restart_threshold = MaxThreshold

SpecConc == InitConc /\ [][NextConc]_vars

\* users' /gioco and numbers in two chats, two handlers running concurrently,
\* those of one chat one after the other
ChatSerial == [handlers |-> 2, chats |-> Chats, serial |-> TRUE,
               texts |-> {"number"}]

NextChatSerial == GameHandlers(ChatSerial) /\ UNCHANGED <<scene, io, user_langs, chat_langs, lang>>

InitChatSerial ==
    /\ Init
    /\ cfg.attempts = 1
    /\ cfg.restart_threshold = MaxThreshold

SpecChatSerial == InitChatSerial /\ [][NextChatSerial]_vars

\* next_attempts_after_win on every argument triple within the bound
InitLadder ==
    /\ InitStore
    /\ cfg \in Configs /\ cfg.attempts = 1 /\ cfg.restart_threshold = 0
    /\ ladder \in [prev : 0..MaxLadder, remaining : -1..MaxLadder,
                   threshold : 0..MaxLadder, next : {0}, done : {FALSE}]
    /\ io = IoIdle

SpecLadder == InitLadder /\ [][LadderApply]_vars

(***************************************************************************)
(* Snapshot writes that fail, and a restart of the process.                *)
(***************************************************************************)
\* what disk holds for a file whose text is no JSON object any more
Torn == [k \in {"torn"} |-> -1]

write_failed_emptied(old) == {old, EmptyMap}

\* the file after fs::write returned Err: untouched when it could not be
\* opened, cut short when the write failed after File::create truncated it
write_failed(old) == {old, Torn}

\* `let _ = save_user_start_attempts(..)`: the handler goes on as after a
\* write that succeeded
SaveUserStartAttemptsFails(t) ==
    /\ tasks[t].pc = "save_starts"
    /\ \E d \in write_failed(disk.user_start_attempts) :
          disk' = [disk EXCEPT !.user_start_attempts = d]
    /\ tasks' = [tasks EXCEPT ![t].pc =
                    IF tasks[t].text \in {"/gioco", "/reset_starts"}
                    THEN "send" ELSE "save_misses"]
    /\ UNCHANGED <<cfg, by_user, user_start_attempts, user_miss_streaks,
                   seen_welcome, writer, lin, before, now, ladder>>

SaveUserMissStreaksFails(t) ==
    /\ tasks[t].pc = "save_misses"
    /\ \E d \in write_failed(disk.user_miss_streaks) :
          disk' = [disk EXCEPT !.user_miss_streaks = d]
    /\ tasks' = [tasks EXCEPT ![t] =
                    IF tasks[t].outcome.tag = "success_correct" THEN IdleTask
                    ELSE [tasks[t] EXCEPT !.pc = "send"]]
    /\ UNCHANGED <<cfg, by_user, user_start_attempts, user_miss_streaks,
                   seen_welcome, writer, lin, before, now, ladder>>

SaveSeenWelcomeFails(t) ==
    /\ tasks[t].pc = "save_seen"
    /\ \E d \in write_failed(disk.seen_welcome) :
          disk' = [disk EXCEPT !.seen_welcome = d]
    /\ tasks' = [tasks EXCEPT ![t] = IdleTask]
    /\ writer' = NoTask
    /\ before' = EmptyStore
    /\ UNCHANGED <<cfg, by_user, user_start_attempts, user_miss_streaks,
                   seen_welcome, lin, now, ladder>>

FailedSaves ==
    \E t \in Tasks :
        \/ SaveUserStartAttemptsFails(t)
        \/ SaveUserMissStreaksFails(t)
        \/ SaveSeenWelcomeFails(t)

\* messages of one chat handled one at a time, with snapshot writes that may
\* fail
NextSaveFail ==
    /\ \/ GameHandlers(OneAtATime)
       \/ OtherHandlers(OneAtATime)
       \/ WelcomeHandlers
       \/ FailedSaves
    /\ UNCHANGED <<scene, io, user_langs, chat_langs, lang>>

InitSaveFail ==
    /\ Init
    /\ cfg.attempts = MaxAttempts
    /\ cfg.restart_threshold = 1

SpecSaveFail == InitSaveFail /\ [][NextSaveFail]_vars

\* the texts a snapshot file can hold, by what disk says of it
DiskFile(d) == IF d = Torn THEN {File("malformed", <<>>)} ELSE save(d)

\* the process is stopped while no handler runs and run_bot starts again: the
\* three maps are loaded from their files, the others start empty
Restart ==
    /\ \A t \in Tasks : Idle(t)
    /\ writer = NoTask
    /\ \E fs \in DiskFile(disk.seen_welcome),
          fa \in DiskFile(disk.user_start_attempts),
          fm \in DiskFile(disk.user_miss_streaks) :
          LET S == [by_user |-> EmptyMap,
                    seen_welcome |-> load_seen_welcome(fs),
                    user_start_attempts |-> load_user_start_attempts(fa),
                    user_miss_streaks |-> load_user_miss_streaks(fm)]
          IN  SetStore(S) /\ lin' = S
    /\ user_langs' = EmptyMap
    /\ chat_langs' = EmptyMap
    /\ UNCHANGED <<cfg, disk, writer, tasks, before, now, ladder>>

\* two chats with concurrent handlers, and restarts
NextRestart ==
    /\ \/ GameHandlers(ChatSerial) /\ UNCHANGED <<user_langs, chat_langs>>
       \/ Restart
    /\ UNCHANGED <<scene, io, lang>>

InitRestart ==
    /\ Init
    /\ cfg.attempts = MaxAttempts
    /\ cfg.restart_threshold = MaxThreshold

SpecRestart == InitRestart /\ [][NextRestart]_vars

(***************************************************************************)
(* Scripted scenarios of one user in one chat, handled one at a time.      *)
(***************************************************************************)
\* the worked example: GAME_ATTEMPTS 10, NUMBER_ATTEMPTS 3, a first target
\* of 42 and the wrong guess 50
Scenario == [attempts |-> 10, threshold |-> 3, target |-> 42, high |-> 50]

ScenarioConfig ==
    [min |-> Scenario.target, max |-> Scenario.target + 1,
     attempts |-> Scenario.attempts, restart_threshold |-> Scenario.threshold,
     ttl_seconds |-> MaxTtl, bot_owner_id |-> {}, reset_user_starts |-> {},
     lang |-> "En"]

InitScenario ==
    /\ InitStore
    /\ cfg = ScenarioConfig
    /\ ladder = LadderIdle
    /\ io = IoIdle

ScenarioWorld == [handlers |-> 1, chats |-> {1}, serial |-> FALSE,
                  texts |-> {"number"}]

StartEvent == [text |-> "/gioco", guess |-> 0]

Number(n) == [text |-> "number", guess |-> n]

Repeat(e, n) == [i \in 1..n |-> e]

\* /gioco, 50, 42, and then three times: the session's attempts used up by
\* wrong guesses, with /gioco in between
ScenarioScript ==
    LET lose == Repeat(Number(Scenario.high), Scenario.attempts - 1) IN
    <<StartEvent, Number(Scenario.high), Number(Scenario.target)>>
        \o lose \o <<StartEvent>> \o lose \o <<StartEvent>> \o lose

\* the steps of a handler after it has started on its message
HandlerSteps(t) ==
    \/ Guess(t)
    \/ \E ok \in BOOLEAN, draw \in rand_in_range(cfg.min, cfg.max) :
          WinSend(t, ok, draw)
    \/ SaveUserStartAttempts(t)
    \/ SaveUserMissStreaks(t)
    \/ \E ok \in BOOLEAN : Send(t, ok)

\* the user sends the messages of the script, one after the other is handled
NextScenario ==
    /\ \E t \in Tasks :
          \/ /\ scene < Len(ScenarioScript)
             /\ ScenarioScript[scene + 1].text = "/gioco"
             /\ \E draw \in (IF scene = 0 THEN {Scenario.target}
                              ELSE rand_in_range(cfg.min, cfg.max)) :
                   Gioco(ScenarioWorld, t, 1, 1, draw)
             /\ scene' = scene + 1
          \/ /\ scene < Len(ScenarioScript)
             /\ ScenarioScript[scene + 1].text = "number"
             /\ CheckGame(ScenarioWorld, t, 1, 1, "number",
                          ScenarioScript[scene + 1].guess)
             /\ scene' = scene + 1
          \/ HandlerSteps(t) /\ UNCHANGED scene
    /\ UNCHANGED <<io, user_langs, chat_langs, lang>>

SpecScenario == InitScenario /\ [][NextScenario]_vars

\* wins counted in SpecWins: enough to reach the floor and stay on it
MaxWins == Scenario.attempts + 1

\* the user guesses the target of every session, and sends /gioco when there
\* is no session; scene counts the winning guesses
NextWins ==
    /\ \E t \in Tasks :
          \/ /\ ~Has(by_user, <<1, 1>>)
             /\ \E draw \in rand_in_range(cfg.min, cfg.max) :
                   Gioco(ScenarioWorld, t, 1, 1, draw)
             /\ UNCHANGED scene
          \/ /\ Has(by_user, <<1, 1>>)
             /\ scene < MaxWins
             /\ CheckGame(ScenarioWorld, t, 1, 1, "number",
                          by_user[<<1, 1>>].target)
             /\ scene' = scene + 1
          \/ HandlerSteps(t) /\ UNCHANGED scene
    /\ UNCHANGED <<io, user_langs, chat_langs, lang>>

SpecWins == InitScenario /\ [][NextWins]_vars

\* the "chat:user" keys of the maps
Composites == {Composite(chat, user) : chat \in Chats, user \in Users}

\* maps over those keys with values in V
Maps(V) == UNION {[D -> V] : D \in SUBSET Composites}

\* files that can be found under data/: numbers include one that is no u64
Files ==
    {NoFile, File("unreadable", <<>>), File("malformed", <<>>)} \cup
    {File("json", e) :
        e \in UNION {[1..n -> Composites \X (-1..1)] : n \in 0..MaxEntries}}

OtherFiles ==
    {NoFile, File("malformed", <<>>),
     File("json", <<<<Composite(1, 1), 1>>>>),
     File("json", <<<<Composite(1, 1), -1>>>>)}

\* a map saved to one of the three files and the three loads of a start, on
\* every map and every content of the files within the bounds
InitFiles ==
    /\ InitStore
    /\ cfg \in Configs /\ cfg.attempts = 1 /\ cfg.restart_threshold = 0
    /\ ladder = LadderIdle
    /\ \E kind \in Kinds, m \in Maps(0..1), f \in Files,
          o \in [Kinds -> OtherFiles] :
          LET files == [k \in Kinds |-> IF k = kind THEN f ELSE o[k]] IN
          io = [phase |-> "start", kind |-> kind, map |-> m,
                orig |-> files, files |-> files,
                loaded |-> [k \in Kinds |-> EmptyMap]]

NextFiles == IoSave \/ IoLoad

SpecFiles == InitFiles /\ [][NextFiles]_vars

\* /reset_starts under every kind of configuration: an owner or none, an
\* allow-list with an entry or none
ResetConfigs ==
    [min : {MinTarget}, max : {MaxTarget},
     attempts : {1}, restart_threshold : {MaxThreshold},
     ttl_seconds : {MaxTtl},
     bot_owner_id : {{}, {2}},
     reset_user_starts : {{}, {Composite(1, 1)}},
     lang : {"En"}]

ResetWorld == [handlers |-> 1, chats |-> Chats, serial |-> FALSE,
               texts |-> {"number", "hello"}]

\* words of a /lang text and values of language_code
WordLang == <<"/", "l", "a", "n", "g">>
WordChat == <<"c", "h", "a", "t">>
TagIt == <<"i", "t">>
TagItUpper == <<"I", "T">>
TagZh == <<"z", "h">>
TagEnUs == <<"e", "n", "-", "U", "S">>
TagUnknown == <<"x", "x">>

\* the player of chat 1 picks a language for themself and one for the chat
ResetLangMessages ==
    {Msg(1, {1}, {}, <<WordLang, TagIt>>),
     Msg(1, {1}, {}, <<WordLang, WordChat, TagZh>>)}

\* one chat's games and welcomes, /reset_starts from both chats, one message
\* handled at a time
NextReset ==
    /\ \/ /\ \/ GameHandlers(OneAtATime)
             \/ WelcomeHandlers
             \* sent by nobody, by the player or by the second user
             \/ \E t \in Tasks, chat \in Chats, from \in {{}, {1}, {2}} :
                   \/ ResetDenied(ResetWorld, t, chat, from)
                   \/ ResetStarts(ResetWorld, t, chat, from)
          /\ UNCHANGED <<user_langs, chat_langs, lang>>
       \/ \E t \in Tasks, msg \in ResetLangMessages :
             LangCommand(OneAtATime, t, msg)
    /\ UNCHANGED <<scene, io>>

InitReset ==
    /\ InitStore
    /\ cfg \in ResetConfigs
    /\ ladder = LadderIdle
    /\ io = IoIdle

SpecReset == InitReset /\ [][NextReset]_vars

\* the texts of /lang messages
LangTexts ==
    {<<WordLang>>,
     <<WordLang, TagIt>>, <<WordLang, <<"R", "u">>>>, <<WordLang, TagUnknown>>,
     <<WordLang, WordChat>>,
     <<WordLang, <<"C", "h", "a", "t">>, TagZh>>,
     <<WordLang, WordChat, TagUnknown>>,
     <<WordLang, <<"u", "s", "e", "r">>, TagIt>>}

\* values of the sender's language_code: none, a tag, a locale, an unknown
\* tag, one character
LangCodes == {{}, {TagItUpper}, {TagEnUs}, {TagUnknown}, {<<"e">>}}

LangMessages ==
    {Msg(chat, {}, {}, parts) : chat \in Chats, parts \in LangTexts} \cup
    {Msg(chat, {user}, code, parts) :
        chat \in Chats, user \in Users, code \in LangCodes, parts \in LangTexts}

LangWorld == [handlers |-> 1, chats |-> Chats, serial |-> FALSE, texts |-> {}]

\* /lang messages of two chats, /gioco of one, and restarts
NextLang ==
    /\ \/ \E t \in Tasks, msg \in LangMessages : LangCommand(LangWorld, t, msg)
       \/ /\ \E t \in Tasks :
                \/ \E draw \in rand_in_range(cfg.min, cfg.max) :
                      Gioco(LangWorld, t, 1, 1, draw)
                \/ SaveUserStartAttempts(t)
                \/ \E ok \in BOOLEAN : Send(t, ok)
          /\ UNCHANGED <<user_langs, chat_langs, lang>>
       \/ Restart /\ UNCHANGED lang
    /\ UNCHANGED <<scene, io>>

\* DEFAULT_LANG is English or Italian
InitLang ==
    /\ InitStore
    /\ cfg \in [min : {MinTarget}, max : {MaxTarget},
                attempts : {1}, restart_threshold : {0},
                ttl_seconds : {MaxTtl},
                bot_owner_id : {{}}, reset_user_starts : {{}},
                lang : {"En", "It"}]
    /\ ladder = LadderIdle
    /\ io = IoIdle

SpecLang == InitLang /\ [][NextLang]_vars

(***************************************************************************)
(* Startup: run_bot validates the configuration, loads the three files and *)
(* starts to handle messages.  io.phase is "boot" before the validation,   *)
(* "refused" after run_bot has bailed out, "start" before the loads and    *)
(* "running" after them.                                                   *)
(***************************************************************************)
valid_config_positive_threshold(c) ==
    c.min < c.max /\ c.attempts > 0 /\ c.restart_threshold > 0

\* the three checks of run_bot, none of which bails out
valid_config(c) ==
    /\ ~(c.min >= c.max)
    /\ ~(c.attempts <= 0)
    /\ ~(c.restart_threshold < 0)

Validate ==
    /\ io.phase = "boot"
    /\ io' = [io EXCEPT !.phase = IF valid_config(cfg) THEN "start"
                                  ELSE "refused"]
    /\ UNCHANGED <<cfg, by_user, user_start_attempts, user_miss_streaks,
                   seen_welcome, disk, writer, tasks, lin, before, now,
                   ladder, user_langs, chat_langs>>

\* the three loads and the construction of AppState
StartupLoad ==
    /\ io.phase = "start"
    /\ LET loaded == [k \in Kinds |-> load(k, io.files[k])]
           S == [by_user |-> EmptyMap,
                 seen_welcome |-> loaded.seen_welcome,
                 user_start_attempts |-> loaded.user_start_attempts,
                 user_miss_streaks |-> loaded.user_miss_streaks]
       IN  /\ io' = [io EXCEPT !.phase = "running", !.loaded = loaded]
           /\ SetStore(S)
           /\ lin' = S
           /\ disk' = loaded
    /\ user_langs' = EmptyMap
    /\ chat_langs' = EmptyMap
    /\ UNCHANGED <<cfg, writer, tasks, before, now, ladder>>

\* what the environment can configure: GAME_MAX below, at and above GAME_MIN,
\* GAME_ATTEMPTS and NUMBER_ATTEMPTS negative, zero and positive
EnvConfigs ==
    [min : {MinTarget}, max : {MinTarget - 1, MinTarget, MaxTarget},
     attempts : -1..1, restart_threshold : -1..1,
     ttl_seconds : {MaxTtl},
     bot_owner_id : {{}}, reset_user_starts : {{}},
     lang : {"En"}]

\* data/ as a start finds it: empty, or with a written budget
StartFiles ==
    {[k \in Kinds |-> NoFile],
     [k \in Kinds |-> IF k = "user_start_attempts"
                        THEN File("json", <<<<Composite(1, 1), 1>>>>)
                        ELSE NoFile]}

InitStartup ==
    /\ InitStore
    /\ cfg \in EnvConfigs
    /\ ladder = LadderIdle
    /\ \E files \in StartFiles :
          io = [IoIdle EXCEPT !.phase = "boot", !.orig = files, !.files = files]

\* a start of the process and, once it runs, one chat's /gioco and numbers
NextStartup ==
    /\ \/ Validate
       \/ StartupLoad
       \/ /\ io.phase = "running"
          /\ GameHandlers(ScenarioWorld)
          /\ UNCHANGED <<io, user_langs, chat_langs>>
    /\ UNCHANGED <<scene, lang>>

SpecStartup == InitStartup /\ [][NextStartup]_vars

\* Two concurrent handlers of one chat's /gioco and numbers, each of which
\* goes on whenever it can: a send returns, and tokio's RwLock hands the guard
\* to its waiters in the order they asked, so no waiter is passed over for
\* ever.
LiveStep(t) ==
    /\ HandlerSteps(t)
    /\ UNCHANGED <<scene, io, user_langs, chat_langs, lang>>

InitLive ==
    /\ Init
    /\ cfg.attempts = 1
    /\ cfg.restart_threshold = 1

SpecLive ==
    /\ InitLive
    /\ [][NextConc]_vars
    /\ \A t \in Tasks : SF_vars(LiveStep(t))

\* the player's games and other texts in two chats, one message handled at
\* a time
NextKeys ==
    /\ GameHandlers(ResetWorld) \/ WelcomeHandlers
    /\ UNCHANGED <<scene, io, user_langs, chat_langs, lang>>

SpecKeys == InitChatSerial /\ [][NextKeys]_vars

\* one chat's /gioco, numbers and other texts, two handlers running
\* concurrently
ConcurrentTexts == [handlers |-> 2, chats |-> {1}, serial |-> FALSE,
                    texts |-> {"number", "hello"}]

NextWelcomeConc ==
    /\ GameHandlers(ConcurrentTexts) \/ WelcomeHandlers
    /\ UNCHANGED <<scene, io, user_langs, chat_langs, lang>>

InitWelcomeConc ==
    /\ Init
    /\ cfg.attempts = 1
    /\ cfg.restart_threshold = 0

SpecWelcomeConc == InitWelcomeConc /\ [][NextWelcomeConc]_vars

\* one key's /gioco, numbers and /reset_starts, one message handled at a
\* time; scene is 1 from an authorized reset to the key's next /gioco
NextAfterReset ==
    /\ \E t \in Tasks :
          \/ /\ \E draw \in rand_in_range(cfg.min, cfg.max) :
                   Gioco(ScenarioWorld, t, 1, 1, draw)
             /\ scene' = 0
          \/ /\ \E guess \in Guesses :
                   CheckGame(ScenarioWorld, t, 1, 1, "number", guess)
             /\ UNCHANGED scene
          \/ /\ ResetStarts(ScenarioWorld, t, 1, {1})
             /\ scene' = 1
          \/ HandlerSteps(t) /\ UNCHANGED scene
    /\ UNCHANGED <<io, user_langs, chat_langs, lang>>

SpecAfterReset == InitRestart /\ [][NextAfterReset]_vars

(***************************************************************************)
(* Properties                                                              *)
(***************************************************************************)
KeyOf(me) == <<me.chat, CHOOSE u \in me.from : TRUE>>

CompositeOf(me) == Composite(me.chat, CHOOSE u \in me.from : TRUE)

\* the step in which handler t, having read has_game, processes its number
\* under the write guard
GuessStepOf(t) ==
    /\ tasks[t].pc = "checked"
    /\ tasks[t].text = "number"
    /\ tasks'[t] # tasks[t]

\* C1: next_attempts_after_win(prev, remaining, threshold) is max(1, prev - 1)
\* for every prev >= 1, whatever remaining and threshold are, and is never
\* below 1.
C1_LadderOneLessFlooredAtOne ==
    ladder.done =>
        /\ ladder.next >= 1
        /\ ladder.prev >= 1 =>
              /\ ladder.next >= ladder.prev - 1
              /\ ladder.next = 1 \/ ladder.next = ladder.prev - 1

\* a slow win (no attempt left) with threshold 0 still tightens by one
C1_Witness ==
    /\ ladder.done
    /\ ladder.prev = MaxLadder /\ ladder.remaining = 0 /\ ladder.threshold = 0
    /\ ladder.next = MaxLadder - 1

\* C2: every session in by_user has 0 <= attempts_left <= start_attempts in
\* every state reached from empty maps by /gioco, guesses and /reset_starts.
C2_AttemptsWithinBudget ==
    \A key \in DOMAIN by_user :
        /\ 0 <= by_user[key].attempts_left
        /\ by_user[key].attempts_left <= by_user[key].start_attempts

\* a session guessed down to 0 from a budget of 2 or more, after a reset
C2_Witness ==
    /\ user_start_attempts = EmptyMap
    /\ \E key \in DOMAIN by_user :
          by_user[key].attempts_left = 0 /\ by_user[key].start_attempts >= 2

\* C3: a guess equal to the target of a session with attempts left replaces
\* the session by one with attempts_left = start_attempts = max(1, old
\* start_attempts - 1), stores that value in user_start_attempts, stores 0 in
\* user_miss_streaks and reports the value; the session is active again.
C3_WinReplacesSession ==
    [][\A t \in Tasks :
        (tasks[t].pc = "send_win" /\ tasks'[t].pc # "send_win") =>
            LET key == KeyOf(tasks[t])
                composite == CompositeOf(tasks[t])
                n == Max(1, tasks[t].game[1].start_attempts - 1)
            IN  /\ tasks[t].outcome = Out("success_correct", n, cfg.restart_threshold)
                /\ Has(by_user', key)
                /\ by_user'[key].attempts_left = n
                /\ by_user'[key].start_attempts = n
                /\ by_user'[key].attempts_left >= 1
                /\ Has(user_start_attempts', composite)
                /\ user_start_attempts'[composite] = n
                /\ Has(user_miss_streaks', composite)
                /\ user_miss_streaks'[composite] = 0]_vars

\* what C3 states does hold of every win whose reply was sent
WinReplacesSessionWhenReplySent ==
    [][\A t \in Tasks :
        (tasks[t].pc = "send_win" /\ tasks'[t].pc = "save_starts") =>
            LET key == KeyOf(tasks[t])
                composite == CompositeOf(tasks[t])
                n == Max(1, tasks[t].game[1].start_attempts - 1)
            IN  /\ tasks[t].outcome = Out("success_correct", n, cfg.restart_threshold)
                /\ Has(by_user', key)
                /\ by_user'[key].attempts_left = n
                /\ by_user'[key].start_attempts = n
                /\ Has(user_start_attempts', composite)
                /\ user_start_attempts'[composite] = n
                /\ Has(user_miss_streaks', composite)
                /\ user_miss_streaks'[composite] = 0]_vars

\* C4: a wrong guess that takes attempts_left to 0 adds one to the miss
\* streak; a streak that reaches restart_threshold sets user_start_attempts to
\* the configured attempts and the streak to 0, one that does not leaves
\* user_start_attempts as it was; the session stays, with 0 attempts and its
\* target.
C4_ExhaustionCountsAndResets ==
    [][\A t \in Tasks :
        (/\ GuessStepOf(t)
         /\ Has(by_user, KeyOf(tasks[t]))
         /\ by_user[KeyOf(tasks[t])].attempts_left = 1
         /\ tasks[t].guess # by_user[KeyOf(tasks[t])].target) =>
            LET key == KeyOf(tasks[t])
                composite == CompositeOf(tasks[t])
                streak == GetOr(user_miss_streaks, composite, 0) + 1
            IN  /\ by_user' = Put(by_user, key,
                                  [by_user[key] EXCEPT !.attempts_left = 0])
                /\ Has(user_miss_streaks', composite)
                /\ streak >= cfg.restart_threshold =>
                      /\ user_miss_streaks'[composite] = 0
                      /\ Has(user_start_attempts', composite)
                      /\ user_start_attempts'[composite] = cfg.attempts
                /\ streak < cfg.restart_threshold =>
                      /\ user_miss_streaks'[composite] = streak
                      /\ user_start_attempts' = user_start_attempts]_vars

\* the second exhaustion in a row, of a session that started with the
\* tightened budget 1, put the default 2 back
C4_Witness ==
    \E t \in Tasks :
        /\ tasks[t].outcome.tag = "revealed"
        /\ cfg.restart_threshold = 2 /\ cfg.attempts = 2
        /\ by_user[KeyOf(tasks[t])].start_attempts = 1
        /\ Has(user_start_attempts, CompositeOf(tasks[t]))
        /\ user_start_attempts[CompositeOf(tasks[t])] = 2
        /\ user_miss_streaks[CompositeOf(tasks[t])] = 0

\* C5: a session with attempts_left = 0 stays as it is; every further guess
\* on it, right or wrong, gets the no-attempts reply and changes no map and
\* no snapshot; only /gioco of its user replaces it, by an active session.
C5_ExhaustedRests ==
    [][/\ \A key \in DOMAIN by_user :
            by_user[key].attempts_left = 0 =>
                \/ Has(by_user', key) /\ by_user'[key] = by_user[key]
                \/ \E t \in Tasks :
                      /\ Idle(t)
                      /\ tasks'[t].text = "/gioco"
                      /\ tasks'[t].from # {}
                      /\ KeyOf(tasks'[t]) = key
                      /\ Has(by_user', key)
                      /\ by_user'[key].attempts_left = by_user'[key].start_attempts
                      /\ by_user'[key].attempts_left >= 1
       /\ \A t \in Tasks :
            (/\ GuessStepOf(t)
             /\ Has(by_user, KeyOf(tasks[t]))
             /\ by_user[KeyOf(tasks[t])].attempts_left = 0) =>
                /\ tasks'[t].outcome.tag = "no_attempts"
                /\ AppState' = AppState
                /\ disk' = disk
       /\ \A t \in Tasks :
            (tasks[t].outcome.tag = "no_attempts" /\ tasks'[t] # tasks[t]) =>
                /\ Idle(t)'
                /\ AppState' = AppState
                /\ disk' = disk]_vars

\* the no-attempts reply to a guess that equals the target
C5_Witness ==
    \E t \in Tasks :
        /\ tasks[t].outcome.tag = "no_attempts"
        /\ tasks[t].guess = by_user[KeyOf(tasks[t])].target
        /\ Has(user_miss_streaks, CompositeOf(tasks[t]))

\* C6: a number from a user without a session gets the not-started reply and
\* the handler changes no map and writes no snapshot, from its first step to
\* its return.
C6_NoSessionNoChange ==
    [][\A t \in Tasks :
        /\ (/\ Idle(t)
            /\ tasks'[t].text = "number"
            /\ tasks'[t].from # {}) =>
                (AppState' = AppState /\ disk' = disk)
        /\ (/\ tasks[t].pc = "checked"
            /\ tasks[t].text = "number"
            /\ tasks'[t] # tasks[t]
            /\ ~Has(by_user, KeyOf(tasks[t]))) =>
                /\ tasks'[t].outcome.tag = "not_started_prompt"
                /\ AppState' = AppState
                /\ disk' = disk
        /\ (tasks[t].outcome.tag = "not_started_prompt" /\ tasks'[t] # tasks[t]) =>
                /\ Idle(t)'
                /\ AppState' = AppState
                /\ disk' = disk]_vars

\* the not-started reply, with maps that are not empty
C6_Witness ==
    \E t \in Tasks :
        /\ tasks[t].outcome.tag = "not_started_prompt"
        /\ ~Has(by_user, KeyOf(tasks[t]))
        /\ seen_welcome # EmptyMap

\* C7: every write of a snapshot file is done by a handler that holds the
\* store's write guard.
C7_SnapshotWritesUnderLock ==
    \A t \in Tasks :
        tasks[t].pc \in {"save_starts", "save_misses", "save_seen"} => writer = t

\* C8: whenever no handler is in progress, each snapshot file holds the map in
\* memory.
C8_SnapshotsMatchWhenQuiet ==
    (\A t \in Tasks : Idle(t)) =>
        /\ disk.user_start_attempts = user_start_attempts
        /\ disk.user_miss_streaks = user_miss_streaks
        /\ disk.seen_welcome = seen_welcome

\* C9: with handlers of one key running concurrently, whenever the write guard
\* is free the store is what the events handled so far give when applied one
\* at a time, in the order the guard was taken: no decrement and no streak
\* increment is lost.
C9_Linearized == writer = NoTask => AppState = lin

\* a second number of the same user is in flight while the first one's hint
\* is being sent
C9_Witness ==
    \E t \in Tasks, o \in Tasks :
        /\ t # o
        /\ tasks[t].outcome.tag \in {"too_low", "too_high"}
        /\ tasks[o].pc = "checked"
        /\ tasks[o].from = tasks[t].from /\ tasks[o].chat = tasks[t].chat

\* what the complete operation of handler me makes of store S
Full(S, me, draw) ==
    CASE me.text = "/gioco" /\ me.from # {} ->
            GiocoLocked(S, cfg, me.chat, CHOOSE u \in me.from : TRUE, draw).store
      [] me.text = "/reset_starts" /\ allowed(cfg, me.chat, me.from) ->
            ResetLocked(S)
      [] me.text = "number" ->
            GuessSeq(S, cfg, me.chat, me.from, me.guess, TRUE, draw)
      [] me.text = "hello" /\ me.pc # "checked" ->
            WelcomeSeq(S, me.chat, CHOOSE u \in me.from : TRUE, me.ts, TRUE)
      [] OTHER -> S

\* C10: when a handler drops the write guard, or acts without it, the four
\* maps are what they were before its operation began or what the complete
\* operation makes of them.
C10_AllOrNothing ==
    [][\A t \in Tasks :
        /\ (writer = t /\ writer' # t) =>
              \/ AppState' = before
              \/ \E draw \in rand_in_range(cfg.min, cfg.max) :
                    AppState' = Full(before, tasks[t], draw)
        /\ (writer = NoTask /\ writer' = NoTask /\ tasks'[t] # tasks[t]) =>
              \/ AppState' = AppState
              \/ \E draw \in rand_in_range(cfg.min, cfg.max) :
                    AppState' = Full(AppState, tasks[t], draw)]_vars

\* C11: a key that has a session keeps having one: whenever the write guard
\* is free, every key that had a session when the guard was last free still
\* has one, also after a handler ended with an error.
C11_SessionNeverRemoved ==
    [][writer' = NoTask =>
          \A key \in DOMAIN (IF writer = NoTask THEN by_user
                             ELSE before.by_user) : Has(by_user', key)]_vars

\* C12: no handler holds the store's write guard while a reply of it is being
\* sent.
C12_NoSendUnderLock ==
    \A t \in Tasks :
        tasks[t].pc \in {"send", "send_win", "send_welcome"} => writer # t

\* the step in which handler t starts on a user's /gioco
GiocoStepOf(t) ==
    /\ Idle(t)
    /\ tasks'[t].text = "/gioco"
    /\ tasks'[t].from # {}

\* C13: /gioco installs, over whatever session the key had, a session whose
\* start_attempts is user_start_attempts[key] if present and the configured
\* attempts if not, with attempts_left = start_attempts and a target in
\* [min, max]; user_start_attempts[key] keeps its value or is created with the
\* default; nothing else changes; and user_start_attempts is written to its
\* file.
C13_StartInstallsSession ==
    [][\A t \in Tasks :
        /\ GiocoStepOf(t) =>
              LET key == KeyOf(tasks'[t])
                  composite == CompositeOf(tasks'[t])
                  budget == IF Has(user_start_attempts, composite)
                            THEN user_start_attempts[composite]
                            ELSE cfg.attempts
              IN  /\ Has(by_user', key)
                  /\ by_user'[key].start_attempts = budget
                  /\ by_user'[key].attempts_left = budget
                  /\ by_user'[key].target \in cfg.min..cfg.max
                  /\ \A k \in DOMAIN by_user \ {key} :
                        Has(by_user', k) /\ by_user'[k] = by_user[k]
                  /\ user_start_attempts' =
                        Put(user_start_attempts, composite, budget)
                  /\ user_miss_streaks' = user_miss_streaks
                  /\ seen_welcome' = seen_welcome
        /\ (/\ tasks[t].text = "/gioco"
            /\ tasks[t].pc = "save_starts"
            /\ tasks'[t].pc # "save_starts") =>
                /\ disk'.user_start_attempts = user_start_attempts
                /\ disk'.user_miss_streaks = disk.user_miss_streaks
                /\ disk'.seen_welcome = disk.seen_welcome
                /\ AppState' = AppState]_vars

\* /gioco on an exhausted session, with the budget a win tightened to 1, and
\* the map written
C13_Witness ==
    \E t \in Tasks :
        /\ tasks[t].text = "/gioco" /\ tasks[t].pc = "send"
        /\ tasks[t].from # {}
        /\ cfg.attempts = 2
        /\ by_user[KeyOf(tasks[t])].start_attempts = 1
        /\ by_user[KeyOf(tasks[t])].attempts_left = 1
        /\ Has(user_miss_streaks, CompositeOf(tasks[t]))
        /\ user_miss_streaks[CompositeOf(tasks[t])] = 1
        /\ disk.user_start_attempts = user_start_attempts

\* C14: a wrong guess on a session with 2 or more attempts left takes exactly
\* one attempt, is answered too-low below the target and too-high above it
\* with the attempts that remain, and leaves the session's target and
\* start_attempts and the three adaptive maps as they were.
C14_WrongGuessTakesOneAttempt ==
    [][\A t \in Tasks :
        (/\ GuessStepOf(t)
         /\ Has(by_user, KeyOf(tasks[t]))
         /\ by_user[KeyOf(tasks[t])].attempts_left >= 2
         /\ tasks[t].guess # by_user[KeyOf(tasks[t])].target) =>
            LET key == KeyOf(tasks[t])
                old == by_user[key]
            IN  /\ by_user' = Put(by_user, key,
                        [old EXCEPT !.attempts_left = old.attempts_left - 1])
                /\ tasks[t].guess < old.target =>
                      tasks'[t].outcome = Out("too_low", old.attempts_left - 1, 0)
                /\ tasks[t].guess > old.target =>
                      tasks'[t].outcome = Out("too_high", old.attempts_left - 1, 0)
                /\ user_start_attempts' = user_start_attempts
                /\ user_miss_streaks' = user_miss_streaks
                /\ seen_welcome' = seen_welcome]_vars

\* the too-high reply to the first guess of a session of two attempts
C14_Witness ==
    \E t \in Tasks :
        /\ tasks[t].outcome = Out("too_high", 1, 0)
        /\ tasks[t].guess = 2
        /\ by_user[KeyOf(tasks[t])] = GameState(1, 1, 2)

\* C15: with attempts 10, threshold 3 and a session of target 42: 50 is
\* answered too-high with 9 left; 42 is then answered as won with 9 next
\* attempts and the new session starts with 9; after that, three sessions
\* used up in a row, /gioco after each, leave user_start_attempts at 10 and
\* the miss streak at 0.
C15_WorkedExample ==
    LET me == tasks[1]
        key == <<1, 1>>
        composite == Composite(1, 1)
        n == Scenario.attempts - 1
    IN  /\ (scene = 2 /\ me.pc = "send") =>
              /\ me.outcome = Out("too_high", n, 0)
              /\ by_user[key].attempts_left = n
        /\ (scene = 3 /\ me.pc \notin {"checked", "idle"}) =>
              me.outcome = Out("success_correct", n, Scenario.threshold)
        /\ (scene = 3 /\ Idle(1)) =>
              /\ Has(by_user, key)
              /\ by_user[key].start_attempts = n
        /\ (scene = Len(ScenarioScript) /\ Idle(1)) =>
              /\ Has(user_start_attempts, composite)
              /\ user_start_attempts[composite] = Scenario.attempts
              /\ Has(user_miss_streaks, composite)
              /\ user_miss_streaks[composite] = 0

\* C16: after k winning guesses in a row, from a budget of 10, the user's
\* session has the budget max(1, 10 - k), and so has user_start_attempts: one
\* less per win, never more, down to 1.
C16_OneLessPerWin ==
    (Idle(1) /\ Has(by_user, <<1, 1>>)) =>
        /\ by_user[<<1, 1>>].start_attempts = Max(1, Scenario.attempts - scene)
        /\ user_start_attempts[Composite(1, 1)] =
              Max(1, Scenario.attempts - scene)

\* what C19 says of every failed write but for the file's content, and of the
\* next write that succeeds
SwallowedAndRepaired ==
    \A t \in Tasks :
        /\ (\/ SaveUserStartAttemptsFails(t)
            \/ SaveUserMissStreaksFails(t)
            \/ SaveSeenWelcomeFails(t)) =>
                /\ AppState' = AppState
                /\ tasks'[t].pc # tasks[t].pc
                /\ Idle(t)' \/ tasks'[t].outcome = tasks[t].outcome
        /\ SaveUserStartAttemptsFails(t) =>
                /\ tasks'[t].pc = IF tasks[t].text \in {"/gioco", "/reset_starts"}
                                  THEN "send" ELSE "save_misses"
                /\ disk'.user_miss_streaks = disk.user_miss_streaks
                /\ disk'.seen_welcome = disk.seen_welcome
        /\ SaveUserMissStreaksFails(t) =>
                /\ disk'.user_start_attempts = disk.user_start_attempts
                /\ disk'.seen_welcome = disk.seen_welcome
        /\ SaveSeenWelcomeFails(t) =>
                /\ disk'.user_start_attempts = disk.user_start_attempts
                /\ disk'.user_miss_streaks = disk.user_miss_streaks
        /\ SaveUserStartAttempts(t) =>
                disk'.user_start_attempts = user_start_attempts'
        /\ SaveUserMissStreaks(t) =>
                disk'.user_miss_streaks = user_miss_streaks'
        /\ SaveSeenWelcome(t) =>
                disk'.seen_welcome = seen_welcome'

C20_AdaptiveMapsSurviveRestart ==
    [][Restart =>
          /\ \A composite \in Composites :
                /\ start_attempts_for(AppState', cfg, composite) =
                      start_attempts_for(AppState, cfg, composite)
                /\ GetOr(user_miss_streaks', composite, 0) =
                      GetOr(user_miss_streaks, composite, 0)
                /\ GetOr(seen_welcome', composite, 0) =
                      GetOr(seen_welcome, composite, 0)
          /\ by_user' = EmptyMap]_vars

\* C17: for each of the three maps, a load after a successful save of map m
\* to its file returns m, and the save leaves the other two files as they
\* were.
C17_LoadAfterSaveIsTheMap ==
    /\ io.phase \in {"saved", "reloaded"} =>
          \A k \in Kinds \ {io.kind} : io.files[k] = io.orig[k]
    /\ io.phase = "reloaded" => io.loaded[io.kind] = io.map

\* a map of two entries was saved over a file that did not parse and was
\* loaded again
C17_Witness ==
    /\ io.phase = "reloaded"
    /\ Cardinality(DOMAIN io.map) = 2
    /\ io.orig[io.kind].state = "malformed"
    /\ io.loaded[io.kind] = io.map
    /\ io.kind = "seen_welcome"

\* a file that a load_* helper answers with the empty map
Unusable(kind, file) ==
    \/ file.state \in {"missing", "unreadable", "malformed"}
    \/ /\ file.state = "json"
       /\ \E i \in DOMAIN file.entries :
             IF kind = "seen_welcome" THEN file.entries[i][2] < 0
             ELSE FALSE

\* C18: a missing, unreadable or malformed file loads as the empty map, and
\* the other two maps are loaded from their own files whatever it holds.
C18_BadFileLoadsEmpty ==
    io.phase \in {"loaded", "reloaded"} =>
        \A k \in Kinds :
            /\ Unusable(k, io.files[k]) => io.loaded[k] = EmptyMap
            /\ ~Unusable(k, io.files[k]) =>
                  io.loaded[k] = MapOf(io.files[k].entries)

\* seen_welcome.json holds a negative number beside a good member and loads
\* empty, while user_start_attempts.json loads with its entry
C18_Witness ==
    /\ io.phase = "loaded"
    /\ io.kind = "seen_welcome"
    /\ Len(io.files["seen_welcome"].entries) = 2
    /\ io.files["seen_welcome"].entries[1][2] = 1
    /\ io.files["seen_welcome"].entries[2][2] = -1
    /\ io.loaded["seen_welcome"] = EmptyMap
    /\ io.loaded["user_start_attempts"] # EmptyMap
    /\ io.files["user_miss_streaks"].state = "malformed"

\* C21: a text that is no command and no number, from a user without a
\* session: when the key has no stamp or now - stamp > ttl_seconds the
\* welcome prompt is sent and, once it is sent, seen_welcome[key] is the time
\* the handler read and the map is written to its file; when now - stamp <=
\* ttl_seconds nothing is sent and nothing changes.
C21_WelcomeWhenDue ==
    [][\A t \in Tasks :
        /\ (/\ tasks[t].pc = "checked"
            /\ tasks[t].text = "hello"
            /\ ~Has(by_user, KeyOf(tasks[t]))
            /\ tasks'[t] # tasks[t]) =>
              LET composite == CompositeOf(tasks[t])
                  due == \/ ~Has(seen_welcome, composite)
                         \/ now - seen_welcome[composite] > cfg.ttl_seconds
              IN  /\ AppState' = AppState
                  /\ disk' = disk
                  /\ due => /\ tasks'[t].pc = "send_welcome"
                            /\ tasks'[t].outcome.tag = "welcome_prompt"
                            /\ tasks'[t].ts = now
                  /\ ~due => Idle(t)'
        /\ (tasks[t].pc = "send_welcome" /\ tasks'[t].pc = "save_seen") =>
              /\ seen_welcome' =
                    Put(seen_welcome, CompositeOf(tasks[t]), tasks[t].ts)
              /\ by_user' = by_user
              /\ user_start_attempts' = user_start_attempts
              /\ user_miss_streaks' = user_miss_streaks
        /\ (tasks[t].pc = "send_welcome" /\ Idle(t)') =>
              AppState' = AppState /\ disk' = disk
        /\ (tasks[t].pc = "save_seen" /\ tasks'[t] # tasks[t]) =>
              /\ disk'.seen_welcome = seen_welcome
              /\ AppState' = AppState]_vars

\* the prompt was sent again after the stamp of second 1 had expired, and the
\* new stamp is being written
C21_Witness ==
    \E t \in Tasks :
        /\ tasks[t].pc = "save_seen"
        /\ disk.seen_welcome # EmptyMap
        /\ disk.seen_welcome[CompositeOf(tasks[t])] = 1
        /\ seen_welcome[CompositeOf(tasks[t])] = 1 + MaxTtl + 1

\* C26: every session's target is in [min, max], and the target of a key's
\* session changes only with /gioco of that key or with a win.
C26_TargetInRangeAndFixed ==
    /\ [](\A key \in DOMAIN by_user :
            by_user[key].target \in cfg.min..cfg.max)
    /\ [][\A key \in DOMAIN by_user :
            (Has(by_user', key) /\ by_user'[key].target # by_user[key].target) =>
                \E t \in Tasks : /\ GiocoStepOf(t)
                                 /\ KeyOf(tasks'[t]) = key]_vars
    /\ [][\A t \in Tasks :
            (GuessStepOf(t) /\ tasks'[t].pc # "send_win"
                /\ Has(by_user, KeyOf(tasks[t]))) =>
                /\ Has(by_user', KeyOf(tasks[t]))
                /\ by_user'[KeyOf(tasks[t])].target =
                      by_user[KeyOf(tasks[t])].target]_vars

\* a wrong guess was answered and the session still has the largest target
C26_Witness ==
    \E t \in Tasks :
        /\ tasks[t].outcome.tag = "too_low"
        /\ by_user[KeyOf(tasks[t])].target = MaxTarget
        /\ by_user[KeyOf(tasks[t])].attempts_left = 1

\* C29: a guess equal to the target with exactly one attempt left is a win
\* and no exhaustion: the miss streak is not incremented but set to 0, and a
\* new session with the laddered budget replaces the old one.
C29_LastAttemptWinIsAWin ==
    [][\A t \in Tasks :
        /\ (/\ GuessStepOf(t)
            /\ Has(by_user, KeyOf(tasks[t]))
            /\ by_user[KeyOf(tasks[t])].attempts_left = 1
            /\ tasks[t].guess = by_user[KeyOf(tasks[t])].target) =>
              /\ tasks'[t].outcome.tag = "success_correct"
              /\ user_miss_streaks' = user_miss_streaks
        /\ (/\ tasks[t].pc = "send_win"
            /\ tasks[t].game[1].attempts_left = 0
            /\ tasks'[t] # tasks[t]) =>
              LET key == KeyOf(tasks[t])
                  composite == CompositeOf(tasks[t])
                  n == Max(1, tasks[t].game[1].start_attempts - 1)
              IN  /\ user_miss_streaks' = Put(user_miss_streaks, composite, 0)
                  /\ Has(by_user', key)
                  /\ by_user'[key].start_attempts = n
                  /\ by_user'[key].attempts_left = n]_vars

\* what C29 states does hold of the win on the last attempt whose reply was
\* sent, and the streak is never incremented by it
LastAttemptWinWhenReplySent ==
    [][\A t \in Tasks :
        /\ (/\ tasks[t].pc = "send_win"
            /\ tasks[t].game[1].attempts_left = 0
            /\ tasks'[t].pc = "save_starts") =>
              LET key == KeyOf(tasks[t])
                  composite == CompositeOf(tasks[t])
                  n == Max(1, tasks[t].game[1].start_attempts - 1)
              IN  /\ user_miss_streaks' = Put(user_miss_streaks, composite, 0)
                  /\ Has(by_user', key)
                  /\ by_user'[key].start_attempts = n
                  /\ by_user'[key].attempts_left = n
        /\ (tasks[t].pc = "send_win" /\ Idle(t)') =>
              user_miss_streaks' = user_miss_streaks]_vars

\* C30: the reply to an exhaustion reports restart_threshold minus the
\* incremented streak when that is below the threshold and 0 when the streak
\* reached it; the value is in 0..threshold-1 for a threshold of 1 or more,
\* and it is 0 exactly when the streak was reset, user_start_attempts[key]
\* then being the configured attempts.
C30_RemainingBeforeReset ==
    [][\A t \in Tasks :
        (/\ GuessStepOf(t)
         /\ Has(by_user, KeyOf(tasks[t]))
         /\ by_user[KeyOf(tasks[t])].attempts_left = 1
         /\ tasks[t].guess # by_user[KeyOf(tasks[t])].target) =>
            LET composite == CompositeOf(tasks[t])
                streak == GetOr(user_miss_streaks, composite, 0) + 1
                reported == tasks'[t].outcome.b
            IN  /\ tasks'[t].outcome.tag = "revealed"
                /\ streak < cfg.restart_threshold =>
                      reported = cfg.restart_threshold - streak
                /\ streak >= cfg.restart_threshold => reported = 0
                /\ cfg.restart_threshold >= 1 =>
                      reported \in 0..(cfg.restart_threshold - 1)
                /\ reported = 0 <=> user_miss_streaks'[composite] = 0
                /\ reported = 0 =>
                      user_start_attempts'[composite] = cfg.attempts]_vars

\* the first exhaustion under a threshold of 2 reports 1
C30_Witness ==
    \E t \in Tasks :
        /\ tasks[t].outcome.tag = "revealed"
        /\ tasks[t].outcome.b = 1
        /\ cfg.restart_threshold = 2
        /\ Has(user_miss_streaks, CompositeOf(tasks[t]))
        /\ user_miss_streaks[CompositeOf(tasks[t])] = 1

\* the step in which handler t starts on a /reset_starts message
ResetStepOf(t) ==
    /\ Idle(t)
    /\ tasks'[t].text = "/reset_starts"

\* C22: /reset_starts from a sender who is not the configured owner and whose
\* "chat:user" is not in the allow-list, or from no sender, is answered "Not
\* authorized." and changes no map and no file; with no owner and an empty
\* allow-list every /reset_starts is answered so.
C22_UnauthorizedResetChangesNothing ==
    [][\A t \in Tasks :
        /\ ResetStepOf(t) =>
              LET from == tasks'[t].from
                  chat == tasks'[t].chat
                  authorized ==
                    \E user \in from :
                        \/ user \in cfg.bot_owner_id
                        \/ Composite(chat, user) \in cfg.reset_user_starts
              IN  /\ ~authorized =>
                        /\ tasks'[t].outcome.tag = "not_authorized"
                        /\ AppState' = AppState
                        /\ disk' = disk
                        /\ user_langs' = user_langs
                        /\ chat_langs' = chat_langs
                  /\ (cfg.bot_owner_id = {} /\ cfg.reset_user_starts = {}) =>
                        tasks'[t].outcome.tag = "not_authorized"
        /\ (tasks[t].outcome.tag = "not_authorized" /\ tasks'[t] # tasks[t]) =>
              /\ Idle(t)'
              /\ AppState' = AppState
              /\ disk' = disk
              /\ user_langs' = user_langs
              /\ chat_langs' = chat_langs]_vars

\* the player, listed for chat 1 only, was refused in chat 2 while they had a
\* tightened budget to lose
C22_Witness ==
    \E t \in Tasks :
        /\ tasks[t].outcome.tag = "not_authorized"
        /\ tasks[t].from = {1}
        /\ tasks[t].chat = 2
        /\ cfg.reset_user_starts = {Composite(1, 1)}
        /\ user_start_attempts # EmptyMap
        /\ disk.user_start_attempts # EmptyMap

\* C23: /reset_starts from the owner or from a listed "chat:user" empties
\* user_start_attempts and writes the empty map to its file; by_user,
\* user_miss_streaks, seen_welcome and the language maps keep their values.
C23_AuthorizedResetEmptiesStartAttempts ==
    [][\A t \in Tasks :
        /\ ResetStepOf(t) =>
              LET from == tasks'[t].from
                  chat == tasks'[t].chat
                  authorized ==
                    \E user \in from :
                        \/ user \in cfg.bot_owner_id
                        \/ Composite(chat, user) \in cfg.reset_user_starts
              IN  authorized =>
                    /\ tasks'[t].outcome.tag = "reset_starts_ok"
                    /\ tasks'[t].pc = "save_starts"
                    /\ user_start_attempts' = EmptyMap
                    /\ by_user' = by_user
                    /\ user_miss_streaks' = user_miss_streaks
                    /\ seen_welcome' = seen_welcome
                    /\ user_langs' = user_langs
                    /\ chat_langs' = chat_langs
        /\ (tasks[t].outcome.tag = "reset_starts_ok" /\ tasks'[t] # tasks[t]) =>
              /\ AppState' = AppState
              /\ user_langs' = user_langs
              /\ chat_langs' = chat_langs
              /\ tasks[t].pc = "save_starts" =>
                    /\ disk'.user_start_attempts = EmptyMap
                    /\ disk'.user_miss_streaks = disk.user_miss_streaks
                    /\ disk'.seen_welcome = disk.seen_welcome]_vars

\* the owner, who plays no game, has reset the budgets while the player had a
\* session, a streak, a welcome stamp and a language, and the file is empty
C23_Witness ==
    \E t \in Tasks :
        /\ tasks[t].outcome.tag = "reset_starts_ok"
        /\ tasks[t].pc = "send"
        /\ tasks[t].from = {2}
        /\ user_start_attempts = EmptyMap
        /\ disk.user_start_attempts = EmptyMap
        /\ by_user # EmptyMap
        /\ user_miss_streaks # EmptyMap
        /\ seen_welcome # EmptyMap
        /\ user_langs # EmptyMap
        /\ chat_langs # EmptyMap

\* the step in which handler t starts on a /lang message
LangStepOf(t) ==
    /\ Idle(t)
    /\ tasks'[t].text = "/lang"

\* C24: "/lang <tag>" of a sender sets user_langs[(chat,user)] and nothing
\* else, "/lang chat <tag>" sets chat_langs[chat] and nothing else; an unknown
\* tag changes neither map; /lang touches no other map and no file; and after
\* a restart both language maps are empty.
C24_LanguageCommands ==
    [][/\ \A t \in Tasks :
            /\ LangStepOf(t) =>
                LET msg == lang'.msg
                    parts == msg.parts
                    tag == tasks'[t].outcome.tag
                IN  /\ AppState' = AppState
                    /\ disk' = disk
                    /\ (Len(parts) = 2 /\ parse_lang(parts[2]) # {}
                            /\ msg.from # {}) =>
                          /\ tag = "lang_set_user"
                          /\ user_langs' = Put(user_langs, KeyOf(msg),
                                CHOOSE l \in parse_lang(parts[2]) : TRUE)
                          /\ chat_langs' = chat_langs
                    /\ (Len(parts) = 3 /\ to_lowercase(parts[2]) = WordChat
                            /\ parse_lang(parts[3]) # {}) =>
                          /\ tag = "lang_set_chat"
                          /\ chat_langs' = Put(chat_langs, msg.chat,
                                CHOOSE l \in parse_lang(parts[3]) : TRUE)
                          /\ user_langs' = user_langs
                    /\ tag \notin {"lang_set_user", "lang_set_chat"} =>
                          user_langs' = user_langs /\ chat_langs' = chat_langs
                    /\ (Len(parts) >= 2 /\ parse_lang(parts[Len(parts)]) = {}) =>
                          /\ tag = "lang_invalid"
                          /\ user_langs' = user_langs
                          /\ chat_langs' = chat_langs
            /\ (tasks[t].text = "/lang" /\ tasks'[t] # tasks[t]) =>
                /\ AppState' = AppState
                /\ disk' = disk
                /\ user_langs' = user_langs
                /\ chat_langs' = chat_langs
       \* the step no handler takes is the restart
       /\ (tasks' = tasks /\ vars' # vars) =>
            user_langs' = EmptyMap /\ chat_langs' = EmptyMap]_vars

\* an unknown tag was refused while both chats' players and a chat had a
\* language and there were a session and a written budget to leave alone
C24_Witness ==
    \E t \in Tasks :
        /\ tasks[t].outcome.tag = "lang_invalid"
        /\ lang.msg.parts = <<WordLang, TagUnknown>>
        /\ DOMAIN user_langs = {<<1, 1>>, <<2, 1>>}
        /\ user_langs[<<1, 1>>] # user_langs[<<2, 1>>]
        /\ chat_langs # EmptyMap
        /\ by_user # EmptyMap
        /\ disk.user_start_attempts # EmptyMap

\* C27: the language of a message is the sender's preference in user_langs if
\* there is one, else the chat's in chat_langs, else the language parsed from
\* the sender's language_code, else the one parsed from its first two
\* characters ("en-US" gives English), else the configured default.
C27_EffectiveLanguagePrecedence ==
    [][\A t \in Tasks :
        LangStepOf(t) =>
            LET msg == lang'.msg
                only(S) == CHOOSE l \in S : TRUE
                user_pref == IF msg.from # {} /\ Has(user_langs, KeyOf(msg))
                                THEN {user_langs[KeyOf(msg)]} ELSE {}
                chat_pref == IF Has(chat_langs, msg.chat)
                                THEN {chat_langs[msg.chat]} ELSE {}
                code == IF msg.from # {} THEN msg.code ELSE {}
                parsed == IF code # {} THEN parse_lang(only(code)) ELSE {}
                prefix == IF code # {} /\ Len(only(code)) >= 2
                            THEN parse_lang(SubSeq(only(code), 1, 2)) ELSE {}
                expected ==
                    IF user_pref # {} THEN only(user_pref)
                    ELSE IF chat_pref # {} THEN only(chat_pref)
                    ELSE IF parsed # {} THEN only(parsed)
                    ELSE IF prefix # {} THEN only(prefix)
                    ELSE cfg.lang
            IN  /\ lang'.result = expected
                /\ Len(msg.parts) = 1 =>
                      tasks'[t].outcome = Out("current_language", expected, 0)
                /\ (user_pref = {} /\ chat_pref = {} /\ code = {TagEnUs}) =>
                      lang'.result = "En"
                /\ (user_pref = {} /\ chat_pref = {} /\ code = {TagItUpper}) =>
                      lang'.result = "It"
                /\ (user_pref = {} /\ chat_pref = {}
                        /\ code \in {{}, {TagUnknown}, {<<"e">>}}) =>
                      lang'.result = cfg.lang]_vars

\* "/lang" of a sender with an Italian preference, in a chat set to Chinese,
\* whose language_code is en-US, under an English default
C27_Witness ==
    \E t \in Tasks :
        /\ tasks[t].outcome.tag = "current_language"
        /\ tasks[t].outcome.a = "It"
        /\ lang.msg.from = {1}
        /\ lang.msg.code = {TagEnUs}
        /\ lang.result = "It"
        /\ Has(chat_langs, lang.msg.chat)
        /\ chat_langs[lang.msg.chat] = "Zh"
        /\ cfg.lang = "En"

\* a configuration run_bot is to refuse
ConfigInvalid ==
    \/ cfg.min >= cfg.max
    \/ cfg.attempts <= 0
    \/ cfg.restart_threshold < 0

\* no file was read or written, no map has an entry, no message is handled
NothingLoaded ==
    /\ AppState = EmptyStore
    /\ io.loaded = [k \in Kinds |-> EmptyMap]
    /\ io.files = io.orig
    /\ \A t \in Tasks : Idle(t)

\* C25: when min >= max, attempts <= 0 or restart_threshold < 0 the start
\* is refused before a file is loaded and before a message is handled; every
\* other configuration, restart_threshold = 0 included, is accepted.
C25_InvalidConfigRefusedBeforeLoad ==
    /\ [](ConfigInvalid => io.phase \in {"boot", "refused"} /\ NothingLoaded)
    /\ [](io.phase = "refused" => ConfigInvalid)
    /\ [](io.phase = "boot" => NothingLoaded)
    /\ [][(io.phase = "boot" /\ io'.phase # "boot") =>
            /\ io'.phase = IF ConfigInvalid THEN "refused" ELSE "start"
            /\ NothingLoaded']_vars

\* zero attempts were configured and the start was refused with a written
\* budget left unread in data/
C25_Witness ==
    /\ io.phase = "refused"
    /\ cfg.attempts = 0
    /\ cfg.min < cfg.max
    /\ cfg.restart_threshold = 0
    /\ io.files.user_start_attempts # NoFile

C31_StartAttemptsBetweenOneAndDefault ==
    /\ \A composite \in DOMAIN user_start_attempts :
          user_start_attempts[composite] \in 1..cfg.attempts
    /\ \A key \in DOMAIN by_user :
          by_user[key].start_attempts \in 1..cfg.attempts

\* a win has tightened the stored budget to 1 under a default of 2 and the
\* new session has that budget
C31_Witness ==
    /\ cfg.attempts = 2
    /\ Has(user_start_attempts, Composite(1, 1))
    /\ user_start_attempts[Composite(1, 1)] = 1
    /\ Has(by_user, <<1, 1>>)
    /\ by_user[<<1, 1>>].start_attempts = 1

\* C32: after every completed event the values stored in user_miss_streaks
\* are in 0..restart_threshold-1 when restart_threshold >= 1 and are 0 when
\* restart_threshold = 0, in which case every exhaustion sets the stored
\* budget to the configured attempts.
C32_StoredStreakBelowThreshold ==
    /\ []((\A t \in Tasks : Idle(t)) =>
            \A composite \in DOMAIN user_miss_streaks :
                /\ cfg.restart_threshold >= 1 =>
                      user_miss_streaks[composite]
                          \in 0..(cfg.restart_threshold - 1)
                /\ cfg.restart_threshold = 0 =>
                      user_miss_streaks[composite] = 0)
    /\ [][\A t \in Tasks :
            (/\ GuessStepOf(t)
             /\ tasks'[t].outcome.tag = "revealed"
             /\ cfg.restart_threshold = 0) =>
                /\ user_start_attempts'[CompositeOf(tasks[t])] = cfg.attempts
                /\ user_miss_streaks'[CompositeOf(tasks[t])] = 0]_vars

\* one exhaustion is stored under a threshold of 2 and no handler runs
C32_Witness ==
    /\ \A t \in Tasks : Idle(t)
    /\ cfg.restart_threshold = 2
    /\ Has(user_miss_streaks, Composite(1, 1))
    /\ user_miss_streaks[Composite(1, 1)] = 1

\* C34: /gioco leaves user_miss_streaks as it is, also when it replaces a
\* session that still had attempts; the map changes only with an exhaustion
\* (the key's streak one more, or 0) and with a win (the key's streak 0).
C34_StartKeepsMissStreaks ==
    [][/\ \A t \in Tasks : GiocoStepOf(t) => user_miss_streaks' = user_miss_streaks
       /\ user_miss_streaks' # user_miss_streaks =>
            \E t \in Tasks :
                LET composite == CompositeOf(tasks[t])
                    streak == GetOr(user_miss_streaks, composite, 0)
                IN  \/ /\ GuessStepOf(t)
                       /\ tasks'[t].outcome.tag = "revealed"
                       /\ \/ user_miss_streaks' =
                                Put(user_miss_streaks, composite, streak + 1)
                          \/ user_miss_streaks' =
                                Put(user_miss_streaks, composite, 0)
                    \/ /\ tasks[t].pc = "send_win"
                       /\ tasks'[t].pc = "save_starts"
                       /\ user_miss_streaks' =
                             Put(user_miss_streaks, composite, 0)]_vars

\* /gioco has replaced a session that had an attempt left and one used, and
\* the streak of 1 is still stored
C34_Witness ==
    \E t \in Tasks :
        /\ tasks[t].outcome.tag = "game_started"
        /\ tasks[t].pc = "save_starts"
        /\ Has(before.by_user, KeyOf(tasks[t]))
        /\ before.by_user[KeyOf(tasks[t])].attempts_left = 1
        /\ before.by_user[KeyOf(tasks[t])].start_attempts = 2
        /\ Has(user_miss_streaks, CompositeOf(tasks[t]))
        /\ user_miss_streaks[CompositeOf(tasks[t])] = 1

\* C36: a session's attempts_left is between 0 and its start_attempts, and a
\* guess processed on a session with attempts_left > 0 is a win or leaves the
\* session with one attempt less; so start_attempts - attempts_left counts
\* the guesses taken and a session takes at most start_attempts of them.
C36_AtMostStartAttemptsGuesses ==
    /\ [](\A key \in DOMAIN by_user :
            by_user[key].attempts_left \in 0..by_user[key].start_attempts)
    /\ [][\A t \in Tasks :
            (/\ GuessStepOf(t)
             /\ Has(by_user, KeyOf(tasks[t]))
             /\ by_user[KeyOf(tasks[t])].attempts_left > 0) =>
                LET key == KeyOf(tasks[t]) IN
                \/ tasks'[t].outcome.tag = "success_correct"
                \/ /\ Has(by_user', key)
                   /\ by_user'[key] =
                        [by_user[key] EXCEPT !.attempts_left = @ - 1]
                   /\ by_user'[key].attempts_left = 0 =>
                        tasks'[t].outcome.tag = "revealed"]_vars

\* the second wrong guess has used up a session of two attempts
C36_Witness ==
    \E t \in Tasks :
        /\ tasks[t].outcome.tag = "revealed"
        /\ Has(by_user, KeyOf(tasks[t]))
        /\ by_user[KeyOf(tasks[t])].attempts_left = 0
        /\ by_user[KeyOf(tasks[t])].start_attempts = 2

\* the entry of key k in map m: none or one value
Entry(m, k) == IF Has(m, k) THEN {m[k]} ELSE {}

\* C33: a step of the handler of a start, a guess or another text of key A
\* leaves, for every other key B, B's session and B's entries in
\* user_start_attempts, user_miss_streaks and seen_welcome as they are, in
\* memory and, messages being handled one at a time, in the files.
C33_KeysIsolated ==
    [][\A t \in Tasks :
        tasks'[t] # tasks[t] =>
            LET A == KeyOf(IF Idle(t) THEN tasks'[t] ELSE tasks[t]) IN
            \A chat \in Chats, user \in Users :
                <<chat, user>> # A =>
                    LET B == Composite(chat, user) IN
                    /\ Entry(by_user', <<chat, user>>) =
                          Entry(by_user, <<chat, user>>)
                    /\ Entry(user_start_attempts', B) =
                          Entry(user_start_attempts, B)
                    /\ Entry(user_miss_streaks', B) = Entry(user_miss_streaks, B)
                    /\ Entry(seen_welcome', B) = Entry(seen_welcome, B)
                    /\ Entry(disk'.user_start_attempts, B) =
                          Entry(disk.user_start_attempts, B)
                    /\ Entry(disk'.user_miss_streaks, B) =
                          Entry(disk.user_miss_streaks, B)
                    /\ Entry(disk'.seen_welcome, B) = Entry(disk.seen_welcome, B)]_vars

\* the player has won in chat 1 while in chat 2 they have a session, a stored
\* budget, a streak of 1 and a welcome stamp, all of them in the files too
C33_Witness ==
    \E t \in Tasks :
        /\ tasks[t].chat = 1
        /\ tasks[t].outcome.tag = "success_correct"
        /\ tasks[t].pc = "save_starts"
        /\ Has(by_user, <<2, 1>>)
        /\ Has(user_start_attempts, Composite(2, 1))
        /\ Has(user_miss_streaks, Composite(2, 1))
        /\ user_miss_streaks[Composite(2, 1)] = 1
        /\ Has(seen_welcome, Composite(2, 1))
        /\ Has(disk.user_miss_streaks, Composite(2, 1))
        /\ disk.user_miss_streaks[Composite(2, 1)] = 1
        /\ Has(disk.seen_welcome, Composite(2, 1))

\* C35: the welcome prompt is sent, and the stamp written, only for a key
\* that has no session in by_user at that moment, also when a /gioco of the
\* same key is handled concurrently with the welcome check.
C35_WelcomeOnlyWithoutSession ==
    [][\A t \in Tasks :
        /\ (tasks[t].pc = "checked" /\ tasks'[t].pc = "send_welcome") =>
              ~Has(by_user, KeyOf(tasks[t]))
        /\ (tasks[t].pc = "send_welcome" /\ tasks'[t].pc = "save_seen") =>
              ~Has(by_user', KeyOf(tasks[t]))]_vars

\* C37: the first /gioco of a key after an authorized /reset_starts creates
\* a session whose start_attempts is the configured attempts, whatever
\* numbers of that key were handled in between.
C37_DefaultBudgetAfterReset ==
    [][\A t \in Tasks :
        (GiocoStepOf(t) /\ scene = 1) =>
            /\ Has(by_user', KeyOf(tasks'[t]))
            /\ by_user'[KeyOf(tasks'[t])].start_attempts = cfg.attempts]_vars

====
